---- MODULE Spec2Model ----
(***************************************************************************)
(* Model of the assignment and scheduling engine:                          *)
(*   optimizer.py          run_optimization, _resolve_dependencies,        *)
(*                         _assign_best_developer, _identify_risks         *)
(*   quantum_optimizer.py  QuantumWorkflowOptimizer.optimize and helpers   *)
(* One behaviour is one invocation of the engine on one input.             *)
(* Numbers are integers; a quotient the code computes in floating point    *)
(* (days = hours / hours_per_day) is kept as an exact fraction <<n, d>>.   *)
(***************************************************************************)
EXTENDS Integers, Sequences, FiniteSets, TLC

\* ------------------------------------------------------------------ bounds
MaxProjects == 3
MaxDevs == 2
MaxHours == 2
MaxRate == 2
MaxHoursPerDay == 2
MaxDeadline == 2
MaxSolverVars == 2

\* ------------------------------------------------------- generic helpers
RECURSIVE GCD(_, _)
GCD(a, b) == IF b = 0 THEN a ELSE GCD(b, a % b)

RECURSIVE Pow(_, _)
Pow(b, e) == IF e = 0 THEN 1 ELSE b * Pow(b, e - 1)

RECURSIVE SumSeq(_)
SumSeq(s) == IF s = <<>> THEN 0 ELSE Head(s) + SumSeq(Tail(s))

Range(s) == {s[i] : i \in DOMAIN s}

\* exact fractions <<n, d>> with d > 0
FracLess(x, y) == x[1] * y[2] < y[1] * x[2]
FracMax(x, y) == IF FracLess(x, y) THEN y ELSE x

\* -------------------------------------------------- dependency resolver
NoName == "<none>"

\* dependency_graph.get(project_name, []): the declared dependencies of the
\* first-built entry of that name, [] for a name that is no input project.
GraphGet(projs, name) ==
    IF \E i \in DOMAIN projs : projs[i].name = name
    THEN projs[CHOOSE i \in DOMAIN projs :
                 /\ projs[i].name = name
                 /\ \A j \in DOMAIN projs : projs[j].name = name => j <= i].dependencies
    ELSE <<>>

\* visit(project_name): three-colour depth-first traversal.  st carries the
\* closure variables visited, temp and ordered, and err, the name carried
\* by the ValueError once it has been raised (NoName before).
\* a traversal that marks a project visited on entry and so keeps no
\* in-progress set (a two-colour depth-first search)
RECURSIVE visit_two_colour(_, _, _)
RECURSIVE visitDeps_two_colour(_, _, _, _)
visit_two_colour(projs, project_name, st) ==
    IF project_name \in st.visited THEN st
    ELSE LET s1 == [st EXCEPT !.visited = @ \cup {project_name}]
             s2 == visitDeps_two_colour(projs, GraphGet(projs, project_name), 1, s1)
         IN [s2 EXCEPT !.ordered = Append(@, project_name)]

visitDeps_two_colour(projs, deps, k, st) ==
    IF k > Len(deps) THEN st
    ELSE visitDeps_two_colour(projs, deps, k + 1,
           IF deps[k] # "" THEN visit_two_colour(projs, deps[k], st) ELSE st)

RECURSIVE visitDeps(_, _, _, _)
RECURSIVE visit(_, _, _)
visit(projs, project_name, st) ==
    IF st.err # NoName THEN st
    ELSE IF project_name \in st.temp THEN [st EXCEPT !.err = project_name]
    ELSE IF project_name \in st.visited THEN st
    ELSE LET s1 == [st EXCEPT !.temp = @ \cup {project_name}]
             s2 == visitDeps(projs, GraphGet(projs, project_name), 1, s1)
         IN IF s2.err # NoName THEN s2
            ELSE [s2 EXCEPT !.temp = @ \ {project_name},
                            !.visited = @ \cup {project_name},
                            !.ordered = Append(@, project_name)]

visitDeps(projs, deps, k, st) ==
    IF k > Len(deps) \/ st.err # NoName THEN st
    ELSE visitDeps(projs, deps, k + 1,
                   IF deps[k] # "" THEN visit(projs, deps[k], st) ELSE st)

\* for project_name in dependency_graph: if not visited: visit(project_name)
RECURSIVE visitAll(_, _, _)
visitAll(projs, i, st) ==
    IF i > Len(projs) \/ st.err # NoName THEN st
    ELSE visitAll(projs, i + 1,
                  IF projs[i].name \in st.visited THEN st
                  ELSE visit(projs, projs[i].name, st))

\* project_map[name]: the project of that name (0 when there is none, where
\* the code raises KeyError).
ProjectMap(projs, name) ==
    IF \E i \in DOMAIN projs : projs[i].name = name
    THEN CHOOSE i \in DOMAIN projs :
           /\ projs[i].name = name
           /\ \A j \in DOMAIN projs : projs[j].name = name => j <= i
    ELSE 0

\* ordered_projects.sort(key=lambda x: -x.get('priority', 1)): a stable sort
\* of the whole list by descending priority (insertion sort, stable).
RECURSIVE InsertByPriority(_, _, _)
InsertByPriority(projs, sorted, p) ==
    IF sorted = <<>> THEN <<p>>
    ELSE IF projs[Head(sorted)].priority >= projs[p].priority
         THEN <<Head(sorted)>> \o InsertByPriority(projs, Tail(sorted), p)
         ELSE <<p>> \o sorted

RECURSIVE SortByPriority(_, _)
SortByPriority(projs, seq) ==
    IF seq = <<>> THEN <<>>
    ELSE InsertByPriority(projs,
                          SortByPriority(projs, SubSeq(seq, 1, Len(seq) - 1)),
                          seq[Len(seq)])

\* _resolve_dependencies(projects): [kind, name, order].  kind is "ok"
\* (order = the projects' indices in execution order), "cycle" (ValueError
\* "Circular dependency detected involving <name>") or "keyerror" (KeyError
\* <name> raised by project_map[name]).
DfsOrder(projs) ==
    visitAll(projs, 1, [visited |-> {}, temp |-> {}, ordered |-> <<>>, err |-> NoName])

FirstMissing(projs, names) ==
    LET bad == {k \in DOMAIN names : ProjectMap(projs, names[k]) = 0}
    IN IF bad = {} THEN NoName
       ELSE names[CHOOSE k \in bad : \A m \in bad : k <= m]

_resolve_dependencies(projs) ==
    LET st == DfsOrder(projs)
        missing == FirstMissing(projs, st.ordered)
    IN IF st.err # NoName
       THEN [kind |-> "cycle", name |-> st.err, order |-> <<>>]
       ELSE IF missing # NoName
       THEN [kind |-> "keyerror", name |-> missing, order |-> <<>>]
       ELSE [kind |-> "ok", name |-> NoName,
             order |-> SortByPriority(projs,
                          [k \in DOMAIN st.ordered |-> ProjectMap(projs, st.ordered[k])])]

\* -------------------------------------------------------------- scoring
\* s.lower() on the tags of the model's alphabet
Lower(t) == IF t = "PY" THEN "py" ELSE IF t = "JS" THEN "js" ELSE t

LowerSet(tags) == {Lower(tags[k]) : k \in DOMAIN tags}

\* len(matched_skills) / len(project_skills) * 100, truncated by int()
MatchPercent(skills, required) ==
    (Cardinality(LowerSet(skills) \cap LowerSet(required)) * 100) \div Len(required)

\* optimizer.py: skill_match = 100 unless both lists are non-empty
SkillMatch(dev, project) ==
    IF project.required_skills # <<>> /\ dev.skills # <<>>
    THEN MatchPercent(dev.skills, project.required_skills)
    ELSE 100

\* quantum_optimizer.py: skill_match = 100 unless the project requires skills
\* (every developer record has the key 'skills')
QSkillMatch(dev, project) ==
    IF project.required_skills # <<>>
    THEN MatchPercent(dev.skills, project.required_skills)
    ELSE 100

Cost(dev, project) == project.hours * dev.rate

\* amplitude = (1 / (cost + 1)) * ((skill_match / 100) ** (priority / 5)).
\* Two amplitudes for the same project are compared exactly through their
\* fifth powers, s^p / (100^p * (c + 1)^5), after dividing out common
\* factors.
AmpLess(s1, c1, s2, c2, p) ==
    LET gs == IF s1 = 0 /\ s2 = 0 THEN 1 ELSE GCD(s1, s2)
        gc == GCD(c1 + 1, c2 + 1)
    IN Pow(s1 \div gs, p) * Pow((c2 + 1) \div gc, 5)
         < Pow(s2 \div gs, p) * Pow((c1 + 1) \div gc, 5)

\* a developer passes only with hours to spare (> instead of >=)
Eligible_strict(devs, availability, project) ==
    {i \in DOMAIN devs : availability[devs[i].name] > project.hours}

\* every developer passes, whatever hours remain
Eligible_unchecked(devs, availability, project) == DOMAIN devs

\* the developers that pass: availability[dev['name']] >= project_hours
Eligible(devs, availability, project) ==
    {i \in DOMAIN devs : ~(availability[devs[i].name] < project.hours)}

\* a sort that is not stable: among the developers of maximum amplitude the
\* last in input order comes out first
BestOf_last_of_equal(devs, cands, project) ==
    CHOOSE i \in cands :
      \A j \in cands :
        /\ ~AmpLess(SkillMatch(devs[i], project), Cost(devs[i], project),
                    SkillMatch(devs[j], project), Cost(devs[j], project),
                    project.priority)
        /\ (j > i => AmpLess(SkillMatch(devs[j], project), Cost(devs[j], project),
                             SkillMatch(devs[i], project), Cost(devs[i], project),
                             project.priority))

\* amplitudes.sort(key=amplitude, reverse=True)[0]: a stable sort, so the
\* first developer in input order among those of maximum amplitude.
BestOf(devs, cands, project) ==
    CHOOSE i \in cands :
      \A j \in cands :
        /\ ~AmpLess(SkillMatch(devs[i], project), Cost(devs[i], project),
                    SkillMatch(devs[j], project), Cost(devs[j], project),
                    project.priority)
        /\ (j < i => AmpLess(SkillMatch(devs[j], project), Cost(devs[j], project),
                             SkillMatch(devs[i], project), Cost(devs[i], project),
                             project.priority))

\* _assign_best_developer(project, developers, availability): 0 when the
\* code raises ValueError("No developer has enough availability ..."),
\* else the index of best_dev.
_assign_best_developer(project, devs, availability) ==
    LET cands == Eligible(devs, availability, project)
    IN IF cands = {} THEN 0 ELSE BestOf(devs, cands, project)

Assignment(dev, project, skill) ==
    [developer |-> dev.name, project |-> project.name, hours |-> project.hours,
     cost |-> Cost(dev, project), skill_match |-> skill]

\* ---------------------------------------------------------- risk evaluator
\* order of first appearance of the developers in the assignments
RECURSIVE FirstSeen(_, _)
FirstSeen(asg, acc) ==
    IF asg = <<>> THEN acc
    ELSE FirstSeen(Tail(asg),
                   IF Head(asg).developer \in Range(acc) THEN acc
                   ELSE Append(acc, Head(asg).developer))

CountFor(asg, name) == Cardinality({k \in DOMAIN asg : asg[k].developer = name})

\* _identify_risks(assignments, budget, deadline, total_cost, completion_time)
\* completion_time is a fraction <<n, d>>.
\* the thresholds taken inclusively (>= instead of >)
BudgetRisk_inclusive(b, cost) ==
    IF cost * 100 >= 95 * b
    THEN <<[kind |-> "budget", severity |-> "high", names |-> <<>>]>>
    ELSE IF cost * 100 >= 80 * b
    THEN <<[kind |-> "budget", severity |-> "medium", names |-> <<>>]>>
    ELSE <<>>

BudgetRisk(budget, total_cost) ==
    IF total_cost * 100 > 95 * budget
    THEN <<[kind |-> "budget", severity |-> "high", names |-> <<>>]>>
    ELSE IF total_cost * 100 > 80 * budget
    THEN <<[kind |-> "budget", severity |-> "medium", names |-> <<>>]>>
    ELSE <<>>

\* finishing exactly on the deadline counted as exceeding it
TimelineRisk_on_deadline(d, ct) ==
    IF ~FracLess(ct, <<d, 1>>)
    THEN <<[kind |-> "timeline", severity |-> "high", names |-> <<>>]>>
    ELSE IF (d * ct[2] - ct[1]) * 100 < 10 * d * ct[2]
    THEN <<[kind |-> "timeline", severity |-> "medium", names |-> <<>>]>>
    ELSE <<>>

TimelineRisk(deadline, ct) ==
    IF FracLess(<<deadline, 1>>, ct)
    THEN <<[kind |-> "timeline", severity |-> "high", names |-> <<>>]>>
    ELSE IF (deadline * ct[2] - ct[1]) * 100 < 10 * deadline * ct[2]
    THEN <<[kind |-> "timeline", severity |-> "medium", names |-> <<>>]>>
    ELSE <<>>

\* a skill match of exactly 70 counted as low
SkillRisk_inclusive(asg) ==
    LET low == {k \in DOMAIN asg : asg[k].skill_match <= 70}
    IN IF low = {} THEN <<>>
       ELSE <<[kind |-> "skill",
               severity |-> IF Cardinality(low) < 3 THEN "medium" ELSE "high",
               names |-> <<>>]>>

SkillRisk(asg) ==
    LET low == {k \in DOMAIN asg : asg[k].skill_match < 70}
    IN IF low = {} THEN <<>>
       ELSE <<[kind |-> "skill",
               severity |-> IF Cardinality(low) < 3 THEN "medium" ELSE "high",
               names |-> <<>>]>>

\* a developer counted as overallocated from two assignments on
OverallocationRisk_from_two(asg) ==
    LET over == SelectSeq(FirstSeen(asg, <<>>), LAMBDA d : CountFor(asg, d) >= 2)
    IN IF over = <<>> THEN <<>>
       ELSE <<[kind |-> "overallocation", severity |-> "medium", names |-> over]>>

OverallocationRisk(asg) ==
    LET over == SelectSeq(FirstSeen(asg, <<>>), LAMBDA d : CountFor(asg, d) > 2)
    IN IF over = <<>> THEN <<>>
       ELSE <<[kind |-> "overallocation", severity |-> "medium", names |-> over]>>

\* an evaluator whose findings are chained: once the budget is nearly
\* exhausted the skill matches are not looked at
_identify_risks_chained(asg, b, d, cost, ct) ==
    BudgetRisk(b, cost) \o TimelineRisk(d, ct)
      \o (IF cost * 100 > 95 * b THEN <<>> ELSE SkillRisk(asg))
      \o OverallocationRisk(asg)

_identify_risks(asg, budget, deadline, total_cost, ct) ==
    BudgetRisk(budget, total_cost) \o TimelineRisk(deadline, ct)
      \o SkillRisk(asg) \o OverallocationRisk(asg)

\* round(v, 1) of the fraction <<n, d>>, in tenths (round half to even, as
\* Python rounds a value that is exactly representable)
RoundTenths(f) ==
    LET q == (10 * f[1]) \div f[2]
        r == (10 * f[1]) % f[2]
    IN IF 2 * r > f[2] THEN q + 1
       ELSE IF 2 * r < f[2] THEN q
       ELSE IF q % 2 = 0 THEN q ELSE q + 1

\* the result dictionary; completion_time and time_buffer in tenths of a day
Result(asg, budget, deadline, total_cost, ct, flag) ==
    [assignments |-> asg,
     total_cost |-> total_cost,
     budget_remaining |-> budget - total_cost,
     completion_time |-> RoundTenths(ct),
     time_buffer |-> RoundTenths(<<deadline * ct[2] - ct[1], ct[2]>>),
     risks |-> _identify_risks(asg, budget, deadline, total_cost, ct),
     quantum_powered |-> flag]

\* ------------------------------------------------------------------ state
VARIABLES
    developers,        \* input: list of developer records
    projects,          \* input: list of project records
    budget,            \* input
    deadline,          \* input
    entry,             \* "greedy": run_optimization is called directly;
                       \* "quantum": QuantumWorkflowOptimizer.optimize is called
    use_quantum,       \* self.use_quantum
    pc,                \* position of the invocation
    caller,            \* who called run_optimization: "direct", "try"
                       \* (optimize, line 180) or "except" (optimize, line 209)
    ordered_projects,  \* indices into projects, in execution order
    idx,               \* position of the for loop over ordered_projects
    assignments,       \* run_optimization's assignments list
    total_cost,
    max_days,          \* fraction <<n, d>>
    dev_availability,  \* the ledger: developer name -> remaining hours
    q_ordered,         \* optimize's own ordered_projects
    qresult,           \* what _solve_with_quantum returned
    result,            \* <<>> or <<the returned dictionary>>
    error,             \* the exception that reached the caller
    run_no,            \* which execution on this input is under way (1 or 2)
    previous,          \* <<>> or <<what the execution before this one ended with>>
    calls              \* the invocations in progress at the same time, each
                       \* with its own arguments and locals

vars == <<developers, projects, budget, deadline, entry, use_quantum, pc, caller,
          ordered_projects, idx, assignments, total_cost, max_days,
          dev_availability, q_ordered, qresult, result, error, run_no, previous,
          calls>>

inputs == <<developers, projects, budget, deadline, entry, use_quantum>>

beside == <<run_no, previous, calls>>

NoError == [kind |-> "none", name |-> NoName]
NoLedger == [n \in {} |-> 0]
NoQResult == [success |-> FALSE, kind |-> "none", x |-> <<>>]

DevNames(devs) == {devs[i].name : i \in DOMAIN devs}

\* next((d for d in developers if d['name'] == dev_name), None)
DevIndex(devs, name) ==
    CHOOSE i \in DOMAIN devs :
      devs[i].name = name /\ \A j \in DOMAIN devs : devs[j].name = name => i <= j

\* ------------------------------------------------------ run_optimization
\* the handler hands back what was assigned so far instead of re-raising
Raise_returns_partial(kind, name) ==
    /\ pc' = "raised"
    /\ error' = [kind |-> kind, name |-> name]
    /\ result' = <<Result(assignments, budget, deadline, total_cost, max_days, "absent")>>
    /\ UNCHANGED <<caller, ordered_projects, idx, assignments, total_cost,
                   max_days, dev_availability>>

\* An exception leaves run_optimization (lines 82-84).  Called from the try
\* block of optimize (line 180) it is caught there and run_optimization is
\* called again from the except block (line 209); otherwise it reaches the
\* caller of the engine.
Raise(kind, name) ==
    IF caller = "try"
    THEN /\ pc' = "run_start"
         /\ caller' = "except"
         /\ ordered_projects' = <<>>
         /\ idx' = 1
         /\ assignments' = <<>>
         /\ total_cost' = 0
         /\ max_days' = <<0, 1>>
         /\ dev_availability' = NoLedger
         /\ UNCHANGED <<result, error>>
    ELSE /\ pc' = "raised"
         /\ error' = [kind |-> kind, name |-> name]
         /\ result' = <<>>
         /\ UNCHANGED <<caller, ordered_projects, idx, assignments, total_cost,
                        max_days, dev_availability>>

\* the ledger kept at module level: created by the first run only, so a
\* later run starts from the hours the earlier one left
RunResolve_keeps_ledger ==
    /\ pc = "run_start"
    /\ LET r == _resolve_dependencies(projects)
       IN IF r.kind # "ok"
          THEN Raise(r.kind, r.name)
          ELSE /\ ordered_projects' = r.order
               /\ assignments' = <<>>
               /\ total_cost' = 0
               /\ max_days' = <<0, 1>>
               /\ dev_availability' =
                    IF dev_availability # NoLedger THEN dev_availability
                    ELSE [n \in DevNames(developers) |->
                            developers[DevIndex(developers, n)].hours_per_day * deadline]
               /\ idx' = 1
               /\ pc' = "run_loop"
               /\ UNCHANGED <<caller, result, error>>
    /\ UNCHANGED <<inputs, beside, q_ordered, qresult>>

\* the resolver without its copy: the caller's own project list is put into
\* execution order
RunResolve_sorts_callers_list ==
    /\ pc = "run_start"
    /\ LET r == _resolve_dependencies(projects)
       IN IF r.kind # "ok"
          THEN Raise(r.kind, r.name) /\ UNCHANGED projects
          ELSE /\ projects' = [k \in DOMAIN r.order |-> projects[r.order[k]]]
               /\ ordered_projects' = [k \in DOMAIN r.order |-> k]
               /\ assignments' = <<>>
               /\ total_cost' = 0
               /\ max_days' = <<0, 1>>
               /\ dev_availability' =
                    [n \in DevNames(developers) |->
                       developers[DevIndex(developers, n)].hours_per_day * deadline]
               /\ idx' = 1
               /\ pc' = "run_loop"
               /\ UNCHANGED <<caller, result, error>>
    /\ UNCHANGED <<developers, budget, deadline, entry, use_quantum, beside,
                   q_ordered, qresult>>

\* lines 31-39: resolve the dependencies, then create the run's locals
RunResolve ==
    /\ pc = "run_start"
    /\ LET r == _resolve_dependencies(projects)
       IN IF r.kind # "ok"
          THEN Raise(r.kind, r.name)
          ELSE /\ ordered_projects' = r.order
               /\ assignments' = <<>>
               /\ total_cost' = 0
               /\ max_days' = <<0, 1>>
               /\ dev_availability' =
                    [n \in DevNames(developers) |->
                       developers[DevIndex(developers, n)].hours_per_day * deadline]
               /\ idx' = 1
               /\ pc' = "run_loop"
               /\ UNCHANGED <<caller, result, error>>
    /\ UNCHANGED <<inputs, beside, q_ordered, qresult>>

\* a loop that treats the budget as a constraint: a project whose cost would
\* take the total past the budget is refused
RunAssign_budget_capped ==
    /\ pc = "run_loop"
    /\ idx <= Len(ordered_projects)
    /\ LET project == projects[ordered_projects[idx]]
           b == _assign_best_developer(project, developers, dev_availability)
       IN IF b = 0 \/ (b # 0 /\ total_cost + Cost(developers[b], project) > budget)
          THEN Raise("infeasible", project.name)
          ELSE LET best_dev == developers[b]
               IN /\ max_days' = FracMax(max_days,
                                         <<project.hours, best_dev.hours_per_day>>)
                  /\ dev_availability' =
                       [dev_availability EXCEPT ![best_dev.name] = @ - project.hours]
                  /\ total_cost' = total_cost + Cost(best_dev, project)
                  /\ assignments' =
                       Append(assignments,
                              Assignment(best_dev, project, SkillMatch(best_dev, project)))
                  /\ idx' = idx + 1
                  /\ UNCHANGED <<pc, caller, ordered_projects, result, error>>
    /\ UNCHANGED <<inputs, beside, q_ordered, qresult>>

\* a loop that passes over a project whose cost the budget no longer covers
RunAssign_skips_unaffordable ==
    /\ pc = "run_loop"
    /\ idx <= Len(ordered_projects)
    /\ LET project == projects[ordered_projects[idx]]
           b == _assign_best_developer(project, developers, dev_availability)
       IN IF b = 0
          THEN Raise("infeasible", project.name)
          ELSE IF total_cost + Cost(developers[b], project) > budget
          THEN /\ idx' = idx + 1
               /\ UNCHANGED <<pc, caller, ordered_projects, result, error, max_days,
                              dev_availability, total_cost, assignments>>
          ELSE LET best_dev == developers[b]
               IN /\ max_days' = FracMax(max_days,
                                         <<project.hours, best_dev.hours_per_day>>)
                  /\ dev_availability' =
                       [dev_availability EXCEPT ![best_dev.name] = @ - project.hours]
                  /\ total_cost' = total_cost + Cost(best_dev, project)
                  /\ assignments' =
                       Append(assignments,
                              Assignment(best_dev, project, SkillMatch(best_dev, project)))
                  /\ idx' = idx + 1
                  /\ UNCHANGED <<pc, caller, ordered_projects, result, error>>
    /\ UNCHANGED <<inputs, beside, q_ordered, qresult>>

\* lines 42-65: one iteration of the loop over ordered_projects
RunAssign ==
    /\ pc = "run_loop"
    /\ idx <= Len(ordered_projects)
    /\ LET project == projects[ordered_projects[idx]]
           b == _assign_best_developer(project, developers, dev_availability)
       IN IF b = 0
          THEN Raise("infeasible", project.name)
          ELSE LET best_dev == developers[b]
               IN /\ max_days' = FracMax(max_days,
                                         <<project.hours, best_dev.hours_per_day>>)
                  /\ dev_availability' =
                       [dev_availability EXCEPT ![best_dev.name] = @ - project.hours]
                  /\ total_cost' = total_cost + Cost(best_dev, project)
                  /\ assignments' =
                       Append(assignments,
                              Assignment(best_dev, project, SkillMatch(best_dev, project)))
                  /\ idx' = idx + 1
                  /\ UNCHANGED <<pc, caller, ordered_projects, result, error>>
    /\ UNCHANGED <<inputs, beside, q_ordered, qresult>>

\* lines 67-80: the risks and the result dictionary (no strategy key)
RunFinish ==
    /\ pc = "run_loop"
    /\ idx > Len(ordered_projects)
    /\ result' = <<Result(assignments, budget, deadline, total_cost, max_days, "absent")>>
    /\ pc' = "returned"
    /\ UNCHANGED <<inputs, beside, caller, ordered_projects, idx, assignments, total_cost,
                   max_days, dev_availability, q_ordered, qresult, error>>

\* run_optimization(budget, deadline, developers, projects) as a function of
\* its arguments: [kind, name, result], kind "ok" with result = <<dict>>, or
\* the exception it raises.  loc = the locals after the projects before k.
RECURSIVE RunLoop(_, _, _, _, _)
RunLoop(devs, projs, order, k, loc) ==
    IF k > Len(order) THEN [kind |-> "ok", name |-> NoName, loc |-> loc]
    ELSE LET project == projs[order[k]]
             b == _assign_best_developer(project, devs, loc.availability)
         IN IF b = 0
            THEN [kind |-> "infeasible", name |-> project.name, loc |-> loc]
            ELSE RunLoop(devs, projs, order, k + 1,
                   [availability |->
                      [loc.availability EXCEPT ![devs[b].name] = @ - project.hours],
                    max_days |-> FracMax(loc.max_days,
                                         <<project.hours, devs[b].hours_per_day>>),
                    total_cost |-> loc.total_cost + Cost(devs[b], project),
                    assignments |-> Append(loc.assignments,
                                      Assignment(devs[b], project,
                                                 SkillMatch(devs[b], project)))])

run_optimization(b, d, devs, projs) ==
    LET r == _resolve_dependencies(projs)
        run == RunLoop(devs, projs, r.order, 1,
                 [availability |-> [n \in DevNames(devs) |->
                                      devs[DevIndex(devs, n)].hours_per_day * d],
                  max_days |-> <<0, 1>>, total_cost |-> 0, assignments |-> <<>>])
    IN IF r.kind # "ok" THEN [kind |-> r.kind, name |-> r.name, result |-> <<>>]
       ELSE IF run.kind # "ok" THEN [kind |-> run.kind, name |-> run.name, result |-> <<>>]
       ELSE [kind |-> "ok", name |-> NoName,
             result |-> <<Result(run.loc.assignments, b, d, run.loc.total_cost,
                                 run.loc.max_days, "absent")>>]

\* ---------------------------------------- QuantumWorkflowOptimizer.optimize
\* the exception handler of optimize (lines 205-209): run_optimization is
\* called on the original input
Fallback ==
    /\ pc' = "run_start"
    /\ caller' = "except"
    /\ UNCHANGED <<ordered_projects, idx, assignments, total_cost, max_days,
                   dev_availability, result, error>>

\* lines 166-180: resolve, build the QUBO, then either solve it or, when
\* use_quantum is off, call run_optimization from inside the try block
OptimizeResolve ==
    /\ pc = "q_start"
    /\ LET r == _resolve_dependencies(projects)
       IN IF r.kind # "ok"
          THEN Fallback /\ UNCHANGED q_ordered
          ELSE /\ q_ordered' = r.order
               /\ IF use_quantum
                  THEN pc' = "q_solve" /\ UNCHANGED caller
                  ELSE pc' = "run_start" /\ caller' = "try"
               /\ UNCHANGED <<ordered_projects, idx, assignments, total_cost,
                              max_days, dev_availability, result, error>>
    /\ UNCHANGED <<inputs, beside, qresult>>

NumVars == Len(developers) * Len(q_ordered)

\* _solve_with_quantum (lines 286-330).  What optimizer.solve does is the
\* environment's choice: it raises (success = False, x all zero); the
\* fallback stub answers (success = True, x all zero, the variables are
\* plain names); or a solver answers some binary vector x over variable
\* objects.
QSolve ==
    /\ pc = "q_solve"
    /\ \/ qresult' = [success |-> FALSE, kind |-> "failed", x |-> [k \in 1..NumVars |-> 0]]
       \/ qresult' = [success |-> TRUE, kind |-> "stub", x |-> [k \in 1..NumVars |-> 0]]
       \/ \E x \in [1..NumVars -> {0, 1}] :
            qresult' = [success |-> TRUE, kind |-> "real", x |-> x]
    /\ pc' = "q_process"
    /\ UNCHANGED <<inputs, beside, caller, ordered_projects, q_ordered, idx, assignments,
                   total_cost, max_days, dev_availability, result, error>>

\* score = cost + time * 10 + (100 - skill_match), as a fraction over
\* hours_per_day
QScore(dev, project) ==
    <<(Cost(dev, project) + 100 - QSkillMatch(dev, project)) * dev.hours_per_day
        + 10 * project.hours,
      dev.hours_per_day>>

\* lines 354-376: the first developer of lowest score among those not used
\* yet, 0 when every developer is used
QBest(devs, used, project) ==
    LET free == {i \in DOMAIN devs : devs[i].name \notin used}
    IN IF free = {} THEN 0
       ELSE CHOOSE i \in free :
              \A j \in free :
                /\ ~FracLess(QScore(devs[j], project), QScore(devs[i], project))
                /\ (j < i => FracLess(QScore(devs[i], project), QScore(devs[j], project)))

\* lines 349-394: the branch of _process_results taken when success is
\* False; st = [used, asg]
RECURSIVE ProcessFailed(_, _, _, _, _)
ProcessFailed(devs, projs, order, j, st) ==
    IF j > Len(order) THEN st.asg
    ELSE LET proj == projs[order[j]]
             b == QBest(devs, st.used, proj)
         IN ProcessFailed(devs, projs, order, j + 1,
              IF b = 0 THEN st
              ELSE [used |-> st.used \cup {devs[b].name},
                    asg |-> Append(st.asg,
                              Assignment(devs[b], proj, QSkillMatch(devs[b], proj)))])

\* lines 396-421: the branch taken when success is True; x_{i}_{j} is the
\* variable number i * len(projects) + j, read developer by developer
RECURSIVE ProcessSolved(_, _, _, _, _)
ProcessSolved(devs, projs, order, x, k) ==
    IF k > Len(devs) * Len(order) THEN <<>>
    ELSE LET i == ((k - 1) \div Len(order)) + 1
             j == ((k - 1) % Len(order)) + 1
             rest == ProcessSolved(devs, projs, order, x, k + 1)
         IN IF x[k] = 1
            THEN <<Assignment(devs[i], projs[order[j]],
                              QSkillMatch(devs[i], projs[order[j]]))>> \o rest
            ELSE rest

\* _process_results(result, developers, projects)
_process_results(qres, devs, projs, order) ==
    IF ~qres.success
    THEN ProcessFailed(devs, projs, order, 1, [used |-> {}, asg |-> <<>>])
    ELSE ProcessSolved(devs, projs, order, qres.x, 1)

\* _calculate_metrics: total cost and the largest workload / hours_per_day
Workload(asg, name) ==
    SumSeq([k \in DOMAIN asg |-> IF asg[k].developer = name THEN asg[k].hours ELSE 0])

RECURSIVE MaxTime(_, _, _)
MaxTime(devs, asg, names) ==
    IF names = <<>> THEN <<0, 1>>
    ELSE FracMax(<<Workload(asg, Head(names)),
                   devs[DevIndex(devs, Head(names))].hours_per_day>>,
                 MaxTime(devs, asg, Tail(names)))

_calculate_metrics(asg, devs) ==
    [total_cost |-> SumSeq([k \in DOMAIN asg |-> asg[k].cost]),
     completion_time |-> MaxTime(devs, asg, FirstSeen(asg, <<>>))]

\* lines 183-203.  {var.name: ...} over the stub's plain names raises
\* AttributeError, which the handler of optimize turns into the fallback.
QProcess ==
    /\ pc = "q_process"
    /\ IF qresult.success /\ qresult.kind = "stub" /\ NumVars > 0
       THEN Fallback
       ELSE LET asg == _process_results(qresult, developers, projects, q_ordered)
                m == _calculate_metrics(asg, developers)
            IN /\ result' = <<Result(asg, budget, deadline, m.total_cost,
                                     m.completion_time,
                                     IF use_quantum THEN "true" ELSE "false")>>
               /\ pc' = "returned"
               /\ UNCHANGED <<caller, ordered_projects, idx, assignments, total_cost,
                              max_days, dev_availability, error>>
    /\ UNCHANGED <<inputs, beside, q_ordered, qresult>>

\* optimize(budget, deadline, developers, projects) as a function of its
\* arguments, of self.use_quantum and of what the solve step answered:
\* [kind, name, result] as for run_optimization
optimize(b, d, devs, projs, uq, qres) ==
    LET r == _resolve_dependencies(projs)
        asg == _process_results(qres, devs, projs, r.order)
        m == _calculate_metrics(asg, devs)
    IN IF r.kind # "ok" \/ ~uq THEN run_optimization(b, d, devs, projs)
       ELSE IF qres.success /\ qres.kind = "stub" /\ Len(devs) * Len(r.order) > 0
       THEN run_optimization(b, d, devs, projs)
       ELSE [kind |-> "ok", name |-> NoName,
             result |-> <<Result(asg, b, d, m.total_cost, m.completion_time, "true")>>]

\* ----------------------------------------------------------------- inputs
ProjectNames == <<"p1", "p2", "p3", "p4", "p5">>
DeveloperNames == <<"d1", "d2", "d3", "d4">>
Ghost == "ghost"
Priorities == {1, 5}

Developer(i, rate, hpd, skills) ==
    [name |-> DeveloperNames[i], rate |-> rate, hours_per_day |-> hpd, skills |-> skills]

\* dependency lists for project i of n: none; one entry, which is a present
\* name, a name that is no project, or the empty string; or the two first
\* present names other than its own (for the first project also in reverse
\* order)
OtherTwo(i, n) ==
    LET others == {j \in 1..n : j # i}
        a == CHOOSE j \in others : \A k \in others : j <= k
        b == CHOOSE j \in others \ {a} : \A k \in others \ {a} : j <= k
    IN <<ProjectNames[a], ProjectNames[b]>>

DepChoices(i, n) ==
    {<<>>} \cup {<<a>> : a \in {ProjectNames[j] : j \in 1..n} \cup {Ghost, ""}}
      \cup (IF n >= 3 THEN {OtherTwo(i, n)} ELSE {})
      \cup (IF n >= 3 /\ i = 1 THEN {<<OtherTwo(i, n)[2], OtherTwo(i, n)[1]>>} ELSE {})

SkillChoices == {<<>>, <<"py">>, <<"PY", "js">>}
RequiredChoices == {<<>>, <<"py">>, <<"JS">>, <<"py", "JS">>}

\* the records of a list, named by position (names are unique within a run)
NameProjects(f) ==
    [i \in DOMAIN f |->
       [name |-> ProjectNames[i], hours |-> f[i].hours, priority |-> f[i].priority,
        dependencies |-> f[i].dependencies, required_skills |-> f[i].required_skills]]

NameDevelopers(f) ==
    [i \in DOMAIN f |-> Developer(i, f[i].rate, f[i].hours_per_day, f[i].skills)]

\* inputs that vary the dependency declarations and the priorities
DependencyInputs ==
    /\ developers = <<Developer(1, 1, MaxHoursPerDay, <<>>)>>
    /\ deadline = MaxDeadline
    /\ budget = 10
    /\ \E n \in 1..MaxProjects :
         projects \in
           {NameProjects(f) :
              f \in {g \in [1..n -> [hours : {1}, priority : Priorities,
                                     dependencies : UNION {DepChoices(i, n) : i \in 1..n},
                                     required_skills : {<<>>}]] :
                       \A i \in 1..n : g[i].dependencies \in DepChoices(i, n)}}

\* inputs that vary the hours, the capacities and the deadline
CapacityInputs ==
    /\ deadline \in 1..MaxDeadline
    /\ budget = 10
    /\ \E n \in 1..MaxDevs :
         developers \in {NameDevelopers(f) :
                           f \in [1..n -> [rate : {1},
                                           hours_per_day : 1..MaxHoursPerDay,
                                           skills : {<<>>}]]}
    /\ \E n \in 1..MaxProjects :
         projects \in {NameProjects(f) :
                         f \in [1..n -> [hours : 1..MaxHours, priority : {3},
                                         dependencies : {<<>>},
                                         required_skills : {<<>>}]]}

\* inputs that vary the rates, the hours and the priorities
RateInputs ==
    /\ deadline = MaxDeadline
    /\ budget \in {5, 10}
    /\ \E n \in 1..MaxDevs :
         developers \in {NameDevelopers(f) :
                           f \in [1..n -> [rate : 1..MaxRate,
                                           hours_per_day : {MaxHoursPerDay},
                                           skills : {<<>>}]]}
    /\ \E n \in 1..2 :
         projects \in {NameProjects(f) :
                         f \in [1..n -> [hours : 1..MaxHours, priority : Priorities,
                                         dependencies : {<<>>},
                                         required_skills : {<<>>}]]}

\* inputs that vary the skill tags
SkillInputs ==
    /\ deadline = MaxDeadline
    /\ budget = 10
    /\ developers \in {NameDevelopers(f) :
                         f \in [1..2 -> [rate : 1..MaxRate,
                                         hours_per_day : {MaxHoursPerDay},
                                         skills : SkillChoices]]}
    /\ \E n \in 1..2 :
         projects \in {NameProjects(f) :
                         f \in [1..n -> [hours : {1}, priority : Priorities,
                                         dependencies : {<<>>},
                                         required_skills : RequiredChoices]]}

\* the engine is entered through run_optimization or through optimize;
\* optimize is explored on problems of at most MaxSolverVars binary
\* variables
Init ==
    /\ \/ DependencyInputs
       \/ CapacityInputs
       \/ RateInputs
       \/ SkillInputs
    /\ \/ entry = "greedy" /\ use_quantum = FALSE
       \/ /\ entry = "quantum"
          /\ use_quantum \in BOOLEAN
          /\ Len(developers) * Len(projects) <= MaxSolverVars
    /\ pc = IF entry = "greedy" THEN "run_start" ELSE "q_start"
    /\ caller = "direct"
    /\ ordered_projects = <<>>
    /\ q_ordered = <<>>
    /\ idx = 1
    /\ assignments = <<>>
    /\ total_cost = 0
    /\ max_days = <<0, 1>>
    /\ dev_availability = NoLedger
    /\ qresult = NoQResult
    /\ result = <<>>
    /\ error = NoError
    /\ run_no = 1
    /\ previous = <<>>
    /\ calls = <<>>

Next ==
    \/ RunResolve
    \/ RunAssign
    \/ RunFinish
    \/ OptimizeResolve
    \/ QSolve
    \/ QProcess

Spec == Init /\ [][Next]_vars

\* ------------------------------------------- run_optimization called twice
\* RerunSpec: the caller calls run_optimization a second time with the same
\* arguments once the first call has returned or raised.  What the first
\* call ended with is kept in previous; everything else is as the first call
\* left it.
RunAgain ==
    /\ entry = "greedy"
    /\ run_no = 1
    /\ pc \in {"returned", "raised"}
    /\ previous' = <<[result |-> result, error |-> error]>>
    /\ run_no' = 2
    /\ pc' = "run_start"
    /\ result' = <<>>
    /\ error' = NoError
    /\ UNCHANGED <<inputs, calls, caller, ordered_projects, idx, assignments,
                   total_cost, max_days, dev_availability, q_ordered, qresult>>

RerunInit == Init /\ entry = "greedy"

RerunNext ==
    \/ RunResolve
    \/ RunAssign
    \/ RunFinish
    \/ RunAgain

RerunSpec == RerunInit /\ [][RerunNext]_vars

\* ------------------------------------------- invocations at the same time
\* ConcurrentSpec: the request handler calls the engine for several requests
\* whose steps interleave.  Each call has its own arguments and its own
\* locals (a record of calls); the one thing the calls share is the
\* optimizer instance, of which optimize reads self.use_quantum.
NumCalls == 2
MaxCallProjects == 2

NewCall(a) ==
    [entry |-> a.entry, budget |-> a.budget, deadline |-> a.deadline,
     developers |-> a.developers, projects |-> a.projects,
     pc |-> IF a.entry = "greedy" THEN "run_start" ELSE "q_start",
     caller |-> "direct", ordered_projects |-> <<>>, idx |-> 1,
     assignments |-> <<>>, total_cost |-> 0, max_days |-> <<0, 1>>,
     dev_availability |-> NoLedger, q_ordered |-> <<>>, qresult |-> NoQResult,
     result |-> <<>>, error |-> NoError]

\* an exception leaves run_optimization (lines 82-84; optimize, lines 205-209)
CallRaise(c, kind, name) ==
    IF c.caller = "try"
    THEN [c EXCEPT !.pc = "run_start", !.caller = "except",
                   !.ordered_projects = <<>>, !.idx = 1, !.assignments = <<>>,
                   !.total_cost = 0, !.max_days = <<0, 1>>,
                   !.dev_availability = NoLedger]
    ELSE [c EXCEPT !.pc = "raised", !.error = [kind |-> kind, name |-> name],
                   !.result = <<>>]

\* one ledger at module level: a call takes over the hours another call's
\* ledger holds for a developer of the same name
CallLedger_shared(cs, i) ==
    [n \in DevNames(cs[i].developers) |->
       IF \E j \in DOMAIN cs : j # i /\ n \in DOMAIN cs[j].dev_availability
       THEN cs[CHOOSE j \in DOMAIN cs :
                 j # i /\ n \in DOMAIN cs[j].dev_availability].dev_availability[n]
       ELSE cs[i].developers[DevIndex(cs[i].developers, n)].hours_per_day
              * cs[i].deadline]

\* line 39: the ledger is a local of the call, built from the call's arguments
CallLedger(cs, i) ==
    [n \in DevNames(cs[i].developers) |->
       cs[i].developers[DevIndex(cs[i].developers, n)].hours_per_day * cs[i].deadline]

\* the steps of call i, as RunResolve .. QProcess on the call's own record
CallRunResolve(cs, i) ==
    LET c == cs[i]
        r == _resolve_dependencies(c.projects)
    IN IF r.kind # "ok" THEN CallRaise(c, r.kind, r.name)
       ELSE [c EXCEPT !.ordered_projects = r.order, !.assignments = <<>>,
                      !.total_cost = 0, !.max_days = <<0, 1>>,
                      !.dev_availability = CallLedger(cs, i), !.idx = 1,
                      !.pc = "run_loop"]

CallRunAssign(cs, i) ==
    LET c == cs[i]
        project == c.projects[c.ordered_projects[c.idx]]
        b == _assign_best_developer(project, c.developers, c.dev_availability)
    IN IF b = 0 THEN CallRaise(c, "infeasible", project.name)
       ELSE [c EXCEPT
               !.max_days = FracMax(@, <<project.hours, c.developers[b].hours_per_day>>),
               !.dev_availability = [@ EXCEPT ![c.developers[b].name] = @ - project.hours],
               !.total_cost = @ + Cost(c.developers[b], project),
               !.assignments = Append(@, Assignment(c.developers[b], project,
                                                    SkillMatch(c.developers[b], project))),
               !.idx = @ + 1]

CallRunFinish(cs, i) ==
    LET c == cs[i]
    IN [c EXCEPT !.result = <<Result(c.assignments, c.budget, c.deadline,
                                     c.total_cost, c.max_days, "absent")>>,
                 !.pc = "returned"]

CallFallback(c) == [c EXCEPT !.pc = "run_start", !.caller = "except"]

CallOptimizeResolve(cs, i) ==
    LET c == cs[i]
        r == _resolve_dependencies(c.projects)
    IN IF r.kind # "ok" THEN CallFallback(c)
       ELSE IF use_quantum THEN [c EXCEPT !.q_ordered = r.order, !.pc = "q_solve"]
       ELSE [c EXCEPT !.q_ordered = r.order, !.pc = "run_start", !.caller = "try"]

CallQProcess(cs, i) ==
    LET c == cs[i]
        asg == _process_results(c.qresult, c.developers, c.projects, c.q_ordered)
        m == _calculate_metrics(asg, c.developers)
    IN IF c.qresult.success /\ c.qresult.kind = "stub"
            /\ Len(c.developers) * Len(c.q_ordered) > 0
       THEN CallFallback(c)
       ELSE [c EXCEPT !.result = <<Result(asg, c.budget, c.deadline, m.total_cost,
                                          m.completion_time,
                                          IF use_quantum THEN "true" ELSE "false")>>,
                      !.pc = "returned"]

\* the arguments of a call: one or two developers of one hour a day, one to
\* MaxCallProjects projects of one hour, a deadline of one day
CallArguments ==
    {a \in [entry : {"greedy", "quantum"}, budget : {10}, deadline : {1},
            developers : {NameDevelopers([i \in 1..n |->
                                            [rate |-> 1, hours_per_day |-> 1,
                                             skills |-> <<>>]]) : n \in 1..2},
            projects : {NameProjects([i \in 1..n |->
                                        [hours |-> 1, priority |-> 3,
                                         dependencies |-> <<>>,
                                         required_skills |-> <<>>]]) :
                          n \in 1..MaxCallProjects}] :
       a.entry = "quantum" => Len(a.developers) * Len(a.projects) <= MaxSolverVars}

\* the calls are interchangeable, so their arguments are taken in one order
ArgumentsRank(a) ==
    (IF a.entry = "greedy" THEN 0 ELSE 100) + 10 * Len(a.developers) + Len(a.projects)

ConcurrentInit ==
    /\ calls \in {[i \in 1..NumCalls |-> NewCall(f[i])] :
                    f \in {g \in [1..NumCalls -> CallArguments] :
                             \A i \in 1..(NumCalls - 1) :
                                ArgumentsRank(g[i]) <= ArgumentsRank(g[i + 1])}}
    /\ use_quantum \in BOOLEAN
    /\ developers = <<>>
    /\ projects = <<>>
    /\ budget = 0
    /\ deadline = 0
    /\ entry = "calls"
    /\ pc = "serving"
    /\ caller = "direct"
    /\ ordered_projects = <<>>
    /\ q_ordered = <<>>
    /\ idx = 1
    /\ assignments = <<>>
    /\ total_cost = 0
    /\ max_days = <<0, 1>>
    /\ dev_availability = NoLedger
    /\ qresult = NoQResult
    /\ result = <<>>
    /\ error = NoError
    /\ run_no = 1
    /\ previous = <<>>

\* call i takes its next step; nothing but its own record changes
Advance(i, c) ==
    /\ calls' = [calls EXCEPT ![i] = c]
    /\ UNCHANGED <<inputs, run_no, previous, pc, caller, ordered_projects, idx,
                   assignments, total_cost, max_days, dev_availability, q_ordered,
                   qresult, result, error>>

StepRunResolve(i) ==
    calls[i].pc = "run_start" /\ Advance(i, CallRunResolve(calls, i))

StepRunAssign(i) ==
    /\ calls[i].pc = "run_loop"
    /\ calls[i].idx <= Len(calls[i].ordered_projects)
    /\ Advance(i, CallRunAssign(calls, i))

StepRunFinish(i) ==
    /\ calls[i].pc = "run_loop"
    /\ calls[i].idx > Len(calls[i].ordered_projects)
    /\ Advance(i, CallRunFinish(calls, i))

StepOptimizeResolve(i) ==
    calls[i].pc = "q_start" /\ Advance(i, CallOptimizeResolve(calls, i))

\* _solve_with_quantum, with the environment's choices of QSolve
StepQSolve(i) ==
    /\ calls[i].pc = "q_solve"
    /\ LET n == Len(calls[i].developers) * Len(calls[i].q_ordered)
       IN \E q \in {[success |-> FALSE, kind |-> "failed", x |-> [k \in 1..n |-> 0]],
                    [success |-> TRUE, kind |-> "stub", x |-> [k \in 1..n |-> 0]]}
                     \cup {[success |-> TRUE, kind |-> "real", x |-> x] :
                             x \in [1..n -> {0, 1}]} :
            Advance(i, [calls[i] EXCEPT !.qresult = q, !.pc = "q_process"])

StepQProcess(i) ==
    calls[i].pc = "q_process" /\ Advance(i, CallQProcess(calls, i))

ConcurrentNext ==
    \E i \in 1..NumCalls :
       \/ StepRunResolve(i)
       \/ StepRunAssign(i)
       \/ StepRunFinish(i)
       \/ StepOptimizeResolve(i)
       \/ StepQSolve(i)
       \/ StepQProcess(i)

ConcurrentSpec == ConcurrentInit /\ [][ConcurrentNext]_vars

\* ------------------------------------------- the risk evaluator on its own
\* _identify_risks is a function of its five arguments.  RiskSpec calls it
\* once on the figures of a plan: the assignments, their total cost and the
\* completion time its caller computed, with the budget and the deadline.
RiskBudget == 20
RiskDeadline == 10
MaxRiskPlan == 8

PlanEntry(i, dev, hours, cost, skill) ==
    [developer |-> dev, project |-> ProjectNames[((i - 1) % 5) + 1],
     hours |-> hours, cost |-> cost, skill_match |-> skill]

\* one assignment whose cost runs past the budget
BudgetPlans ==
    /\ budget = RiskBudget
    /\ deadline = RiskDeadline
    /\ \E c \in 0..(RiskBudget + 1) :
         /\ assignments = <<PlanEntry(1, "d1", 1, c, 100)>>
         /\ total_cost = c
    /\ max_days = <<1, 1>>

\* one assignment of n hours to a developer working 10 hours a day, up to
\* two days past the deadline
TimelinePlans ==
    /\ budget = RiskBudget
    /\ deadline = RiskDeadline
    /\ \E n \in 0..(10 * RiskDeadline + 20) :
         /\ assignments = <<PlanEntry(1, "d1", n, 1, 100)>>
         /\ max_days = <<n, 10>>
    /\ total_cost = 1

\* up to MaxRiskPlan assignments of differing skill match, spread over the
\* developers in turn
SkillPlans ==
    /\ budget = RiskBudget
    /\ deadline = RiskDeadline
    /\ \E k \in 0..MaxRiskPlan : \E f \in [1..k -> {69, 70, 100}] :
         /\ assignments =
              [i \in 1..k |-> PlanEntry(i, DeveloperNames[((i - 1) % 4) + 1], 1, 3, f[i])]
         /\ total_cost = 3 * k
         /\ max_days = IF k = 0 THEN <<0, 1>> ELSE <<1, 1>>

\* up to MaxRiskPlan assignments shared out between three developers
OverallocationPlans ==
    /\ budget = RiskBudget
    /\ deadline = RiskDeadline
    /\ \E k \in 0..MaxRiskPlan : \E f \in [1..k -> {"d1", "d2", "d3"}] :
         /\ assignments = [i \in 1..k |-> PlanEntry(i, f[i], 1, 1, 100)]
         /\ total_cost = k
         /\ max_days = IF k = 0 THEN <<0, 1>> ELSE <<1, 1>>

\* plans of three assignments in which the four conditions vary together:
\* the total cost around 80% and 95% of the budget, the completion time
\* around 90% and 100% of the deadline, none to three low skill matches, one
\* developer for all three assignments or one each
MixedCosts ==
    {(80 * RiskBudget) \div 100, (80 * RiskBudget) \div 100 + 1,
     (95 * RiskBudget) \div 100, (95 * RiskBudget) \div 100 + 1}

MixedHours == {9 * RiskDeadline, 9 * RiskDeadline + 1, 10 * RiskDeadline,
               10 * RiskDeadline + 1}

MixedAssignments(cost, hours, low, same) ==
    [i \in 1..3 |->
       PlanEntry(i, IF same THEN "d1" ELSE DeveloperNames[i],
                 IF i = 1 THEN hours ELSE 1,
                 IF i = 1 THEN cost - 2 ELSE 1,
                 IF i <= low THEN 69 ELSE 100)]

MixedPlanChoices ==
    {MixedAssignments(c, h, low, same) :
       c \in MixedCosts, h \in MixedHours, low \in 0..3, same \in BOOLEAN}

MixedPlans ==
    /\ budget = RiskBudget
    /\ deadline = RiskDeadline
    /\ assignments \in MixedPlanChoices
    /\ total_cost = SumSeq([k \in DOMAIN assignments |-> assignments[k].cost])
    /\ max_days = <<assignments[1].hours, 10>>

RiskInit ==
    /\ \/ BudgetPlans
       \/ TimelinePlans
       \/ SkillPlans
       \/ OverallocationPlans
       \/ MixedPlans
    /\ developers = <<>>
    /\ projects = <<>>
    /\ entry = "risks"
    /\ use_quantum = FALSE
    /\ pc = "risk_start"
    /\ caller = "direct"
    /\ ordered_projects = <<>>
    /\ q_ordered = <<>>
    /\ idx = 1
    /\ dev_availability = NoLedger
    /\ qresult = NoQResult
    /\ result = <<>>
    /\ error = NoError
    /\ run_no = 1
    /\ previous = <<>>
    /\ calls = <<>>

\* risks = _identify_risks(assignments, budget, deadline, total_cost,
\*                         completion_time); result holds the returned list
IdentifyRisks ==
    /\ pc = "risk_start"
    /\ result' = <<_identify_risks(assignments, budget, deadline, total_cost, max_days)>>
    /\ pc' = "risk_done"
    /\ UNCHANGED <<inputs, beside, caller, ordered_projects, idx, assignments, total_cost,
                   max_days, dev_availability, q_ordered, qresult, error>>

RiskNext == IdentifyRisks

RiskSpec == RiskInit /\ [][RiskNext]_vars

\* ------------------------------------------ the budget check in binary64
\* Rates are JSON numbers, so cost = hours * rate and budget_usage =
\* (total_cost / budget) * 100 are computed in IEEE-754 double precision.
\* A natural number is kept as the sequence of its binary digits, most
\* significant first and without leading zeros (<<>> is 0); a double is
\* [m, e] with value m * 2^e and m of at most MantissaBits digits.
MantissaBits == 53

RECURSIVE Bits(_)
Bits(n) == IF n = 0 THEN <<>> ELSE Append(Bits(n \div 2), n % 2)

RECURSIVE StripZeros(_)
StripZeros(a) == IF a # <<>> /\ Head(a) = 0 THEN StripZeros(Tail(a)) ELSE a

Zeros(k) == [i \in 1..k |-> 0]

\* the digits are worked on eight at a time
PadToEights(a) == Zeros((8 - (Len(a) % 8)) % 8) \o a

EightValue(a, i) ==
    128 * a[i] + 64 * a[i + 1] + 32 * a[i + 2] + 16 * a[i + 3]
      + 8 * a[i + 4] + 4 * a[i + 5] + 2 * a[i + 6] + a[i + 7]

EightDigits(v) ==
    <<(v \div 128) % 2, (v \div 64) % 2, (v \div 32) % 2, (v \div 16) % 2,
      (v \div 8) % 2, (v \div 4) % 2, (v \div 2) % 2, v % 2>>

\* a * k for a small natural k: the digits after position i + 7 are done and
\* held in acc
RECURSIVE TimesSmallFrom(_, _, _, _, _)
TimesSmallFrom(a, k, i, carry, acc) ==
    IF i < 1 THEN StripZeros(Bits(carry) \o acc)
    ELSE TimesSmallFrom(a, k, i - 8, (EightValue(a, i) * k + carry) \div 256,
                        EightDigits((EightValue(a, i) * k + carry) % 256) \o acc)

TimesSmall(a, k) ==
    TimesSmallFrom(PadToEights(a), k, Len(PadToEights(a)) - 7, 0, <<>>)

\* quotient and remainder of a by a small natural d, by long division
RECURSIVE DivideSmallFrom(_, _, _, _, _)
DivideSmallFrom(a, d, i, rem, acc) ==
    IF i > Len(a) THEN [q |-> StripZeros(acc), r |-> rem]
    ELSE DivideSmallFrom(a, d, i + 8, (256 * rem + EightValue(a, i)) % d,
                         acc \o EightDigits((256 * rem + EightValue(a, i)) \div d))

DivideSmall(a, d) == DivideSmallFrom(PadToEights(a), d, 1, 0, <<>>)

RECURSIVE Increment(_)
Increment(a) ==
    IF a = <<>> THEN <<1>>
    ELSE IF a[Len(a)] = 0 THEN [a EXCEPT ![Len(a)] = 1]
    ELSE Append(Increment(SubSeq(a, 1, Len(a) - 1)), 0)

BitsLess(a, b) ==
    \/ Len(a) < Len(b)
    \/ /\ Len(a) = Len(b)
       /\ \E i \in DOMAIN a : a[i] < b[i] /\ \A j \in 1..(i - 1) : a[j] = b[j]

\* the double nearest to a * 2^e (plus, when sticky, a non-zero fraction of
\* the last place of a): round to nearest, ties to even
RoundToDouble(a, e, sticky) ==
    IF Len(a) <= MantissaBits THEN [m |-> a, e |-> e]
    ELSE LET keep == SubSeq(a, 1, MantissaBits)
             below == sticky \/ \E i \in (MantissaBits + 2)..Len(a) : a[i] = 1
             up == a[MantissaBits + 1] = 1 /\ (below \/ keep[MantissaBits] = 1)
             m == IF up THEN Increment(keep) ELSE keep
             shift == Len(a) - MantissaBits
         IN IF Len(m) > MantissaBits
            THEN [m |-> SubSeq(m, 1, MantissaBits), e |-> e + shift + 1]
            ELSE [m |-> m, e |-> e + shift]

FromInt(n) == [m |-> Bits(n), e |-> 0]

\* x * k and x / d for a double x and a whole number, correctly rounded
FloatTimesInt(x, k) == RoundToDouble(TimesSmall(x.m, k), x.e, FALSE)

FloatOverInt(x, d) ==
    LET s == MantissaBits + 3 + Len(Bits(d))
        qr == DivideSmall(x.m \o Zeros(s), d)
    IN RoundToDouble(qr.q, x.e - s, qr.r # 0)

\* x > n for a double x and a whole number n
FloatGreaterInt(x, n) ==
    IF x.e >= 0 THEN BitsLess(Bits(n), StripZeros(x.m \o Zeros(x.e)))
    ELSE BitsLess(Bits(n) \o Zeros(-x.e), x.m)

\* the double a JSON number of so many tenths is read as
ParseTenths(t) == FloatOverInt(FromInt(t), 10)

\* FloatSpec: run_optimization on one developer whose rate is a decimal
\* number of tenths and one project that fits the developer's hours, then
\* the risk evaluation of that plan.  total_cost is a double.
MaxRateTenths == 12
MaxFloatHours == 3
MaxFloatBudget == 4

FloatInit ==
    /\ budget \in 1..MaxFloatBudget
    /\ deadline = 1
    /\ \E t \in 1..MaxRateTenths :
         developers = <<[name |-> DeveloperNames[1], rate |-> [tenths |-> t],
                         hours_per_day |-> MaxFloatHours, skills |-> <<>>]>>
    /\ \E h \in 1..MaxFloatHours :
         projects = <<[name |-> ProjectNames[1], hours |-> h, priority |-> 3,
                       dependencies |-> <<>>, required_skills |-> <<>>]>>
    /\ entry = "greedy"
    /\ use_quantum = FALSE
    /\ pc = "float_start"
    /\ caller = "direct"
    /\ ordered_projects = <<>>
    /\ q_ordered = <<>>
    /\ idx = 1
    /\ assignments = <<>>
    /\ total_cost = FromInt(0)
    /\ max_days = <<0, 1>>
    /\ dev_availability = NoLedger
    /\ qresult = NoQResult
    /\ result = <<>>
    /\ error = NoError
    /\ run_no = 1
    /\ previous = <<>>
    /\ calls = <<>>

\* lines 31-65 for the one project: the developer is eligible and is the
\* best; cost = project_hours * dev['rate'] and total_cost = 0 + cost
FloatAssign ==
    /\ pc = "float_start"
    /\ LET dev == developers[1]
           project == projects[1]
           cost == FloatTimesInt(ParseTenths(dev.rate.tenths), project.hours)
       IN /\ ordered_projects' = <<1>>
          /\ dev_availability' =
               [n \in {dev.name} |-> dev.hours_per_day * deadline - project.hours]
          /\ max_days' = <<project.hours, dev.hours_per_day>>
          /\ total_cost' = cost
          /\ assignments' = <<[developer |-> dev.name, project |-> project.name,
                               hours |-> project.hours, cost |-> cost,
                               skill_match |-> 100]>>
    /\ idx' = 2
    /\ pc' = "float_risks"
    /\ UNCHANGED <<inputs, beside, caller, q_ordered, qresult, result, error>>

\* lines 210-221 on doubles: budget_usage = (total_cost / budget) * 100
FloatBudgetRisk(b, cost) ==
    LET budget_usage == FloatTimesInt(FloatOverInt(cost, b), 100)
    IN IF FloatGreaterInt(budget_usage, 95)
       THEN <<[kind |-> "budget", severity |-> "high", names |-> <<>>]>>
       ELSE IF FloatGreaterInt(budget_usage, 80)
       THEN <<[kind |-> "budget", severity |-> "medium", names |-> <<>>]>>
       ELSE <<>>

\* line 68: risks = _identify_risks(...); result holds the returned list
FloatIdentifyRisks ==
    /\ pc = "float_risks"
    /\ result' = <<FloatBudgetRisk(budget, total_cost) \o TimelineRisk(deadline, max_days)
                     \o SkillRisk(assignments) \o OverallocationRisk(assignments)>>
    /\ pc' = "float_done"
    /\ UNCHANGED <<inputs, beside, caller, ordered_projects, idx, assignments, total_cost,
                   max_days, dev_availability, q_ordered, qresult, error>>

FloatNext ==
    \/ FloatAssign
    \/ FloatIdentifyRisks

FloatSpec == FloatInit /\ [][FloatNext]_vars

\* --------------------------------------- the completion time in binary64
\* hours_per_day is a JSON number too, so the ledger hours_per_day * deadline,
\* days_needed = hours_needed / hours_per_day and time_buffer_percent are
\* computed in double precision.

\* a - b for naturals a >= b, digit by digit: a place borrows when the
\* digits below it make a smaller number in a than in b
BitsMinus(a, b) ==
    LET n == Len(a)
        bp == Zeros(n - Len(b)) \o b
        borrow(i) == \E j \in (i + 1)..n :
                        a[j] < bp[j] /\ \A k \in (i + 1)..(j - 1) : a[k] = bp[k]
    IN StripZeros([i \in 1..n |->
                     (a[i] + 2 - bp[i] - (IF borrow(i) THEN 1 ELSE 0)) % 2])

\* one step of long division by d: the next digit of the dividend comes down
DivideStep(d, st, digit) ==
    LET r == StripZeros(Append(st.rem, digit))
    IN IF BitsLess(r, d) THEN [rem |-> r, q |-> Append(st.q, 0)]
       ELSE [rem |-> BitsMinus(r, d), q |-> Append(st.q, 1)]

\* quotient and remainder of a by d, eight digits of a at a time
RECURSIVE DivideBigFrom(_, _, _)
DivideBigFrom(a, d, st) ==
    IF Len(st.q) >= Len(a) THEN [q |-> StripZeros(st.q), r |-> st.rem]
    ELSE LET i == Len(st.q)
             s1 == DivideStep(d, st, a[i + 1])
             s2 == DivideStep(d, s1, a[i + 2])
             s3 == DivideStep(d, s2, a[i + 3])
             s4 == DivideStep(d, s3, a[i + 4])
             s5 == DivideStep(d, s4, a[i + 5])
             s6 == DivideStep(d, s5, a[i + 6])
             s7 == DivideStep(d, s6, a[i + 7])
         IN DivideBigFrom(a, d, DivideStep(d, s7, a[i + 8]))

DivideBig(a, d) == DivideBigFrom(PadToEights(a), d, [rem |-> <<>>, q |-> <<>>])

\* x / y for doubles x and y # 0, correctly rounded
FloatOverFloat(x, y) ==
    LET s == MantissaBits + 3 + Len(y.m)
        qr == DivideBig(x.m \o Zeros(s), y.m)
    IN RoundToDouble(qr.q, x.e - y.e - s, qr.r # <<>>)

\* x < n for a double x and a whole number n
FloatLessInt(x, n) ==
    IF x.e >= 0 THEN BitsLess(StripZeros(x.m \o Zeros(x.e)), Bits(n))
    ELSE BitsLess(x.m, Bits(n) \o Zeros(-x.e))

\* x - n and n - x for a double x and a whole number n, the result not
\* negative
FloatMinusInt(x, n) ==
    IF x.e >= 0 THEN RoundToDouble(BitsMinus(x.m \o Zeros(x.e), Bits(n)), 0, FALSE)
    ELSE RoundToDouble(BitsMinus(x.m, Bits(n) \o Zeros(-x.e)), x.e, FALSE)

IntMinusFloat(n, x) ==
    IF x.e >= 0 THEN RoundToDouble(BitsMinus(Bits(n), StripZeros(x.m \o Zeros(x.e))), 0, FALSE)
    ELSE RoundToDouble(BitsMinus(Bits(n) \o Zeros(-x.e), x.m), x.e, FALSE)

\* FloatDaysSpec: run_optimization on one developer whose hours_per_day is a
\* decimal number of tenths and one project of whole hours, with a whole
\* deadline, then the risk evaluation of the plan.  The ledger and max_days
\* are doubles.
MaxDayTenths == 14
FloatDeadline == 15
MaxDayHours == 21

FloatDaysInit ==
    /\ budget = 100
    /\ deadline = FloatDeadline
    /\ \E t \in 1..MaxDayTenths :
         developers = <<[name |-> DeveloperNames[1], rate |-> 1,
                         hours_per_day |-> [tenths |-> t], skills |-> <<>>]>>
    /\ \E h \in 1..MaxDayHours :
         projects = <<[name |-> ProjectNames[1], hours |-> h, priority |-> 3,
                       dependencies |-> <<>>, required_skills |-> <<>>]>>
    /\ entry = "greedy"
    /\ use_quantum = FALSE
    /\ pc = "days_start"
    /\ caller = "direct"
    /\ ordered_projects = <<>>
    /\ q_ordered = <<>>
    /\ idx = 1
    /\ assignments = <<>>
    /\ total_cost = 0
    /\ max_days = FromInt(0)
    /\ dev_availability = NoLedger
    /\ qresult = NoQResult
    /\ result = <<>>
    /\ error = NoError
    /\ run_no = 1
    /\ previous = <<>>
    /\ calls = <<>>

\* lines 31-39: the order of the one project and the ledger
\* dev['hours_per_day'] * deadline
FloatDaysResolve ==
    /\ pc = "days_start"
    /\ ordered_projects' = <<1>>
    /\ dev_availability' =
         [n \in {developers[1].name} |->
            FloatTimesInt(ParseTenths(developers[1].hours_per_day.tenths), deadline)]
    /\ pc' = "days_loop"
    /\ UNCHANGED <<inputs, beside, caller, idx, assignments, total_cost, max_days,
                   q_ordered, qresult, result, error>>

\* lines 42-65 for the one project: the developer is skipped when
\* availability < project_hours (line 159), and the run then raises (line
\* 183); else days_needed = hours_needed / hours_per_day, max_days =
\* max(0, days_needed) and the ledger is decremented
FloatDaysAssign ==
    /\ pc = "days_loop"
    /\ LET dev == developers[1]
           project == projects[1]
       IN IF FloatLessInt(dev_availability[dev.name], project.hours)
          THEN /\ pc' = "raised"
               /\ error' = [kind |-> "infeasible", name |-> project.name]
               /\ UNCHANGED <<idx, assignments, total_cost, max_days, dev_availability>>
          ELSE /\ max_days' = FloatOverFloat(FromInt(project.hours),
                                             ParseTenths(dev.hours_per_day.tenths))
               /\ dev_availability' =
                    [dev_availability EXCEPT
                       ![dev.name] = FloatMinusInt(@, project.hours)]
               /\ total_cost' = total_cost + Cost(dev, project)
               /\ assignments' = <<Assignment(dev, project, 100)>>
               /\ idx' = 2
               /\ pc' = "days_risks"
               /\ UNCHANGED error
    /\ UNCHANGED <<inputs, beside, caller, ordered_projects, q_ordered, qresult, result>>

\* lines 223-234 on doubles: time_buffer_percent = ((deadline -
\* completion_time) / deadline) * 100
FloatTimelineRisk(d, ct) ==
    IF FloatGreaterInt(ct, d)
    THEN <<[kind |-> "timeline", severity |-> "high", names |-> <<>>]>>
    ELSE IF FloatLessInt(FloatTimesInt(FloatOverInt(IntMinusFloat(d, ct), d), 100), 10)
    THEN <<[kind |-> "timeline", severity |-> "medium", names |-> <<>>]>>
    ELSE <<>>

\* line 68: risks = _identify_risks(...); result holds the returned list
FloatDaysIdentifyRisks ==
    /\ pc = "days_risks"
    /\ result' = <<BudgetRisk(budget, total_cost) \o FloatTimelineRisk(deadline, max_days)
                     \o SkillRisk(assignments) \o OverallocationRisk(assignments)>>
    /\ pc' = "days_done"
    /\ UNCHANGED <<inputs, beside, caller, ordered_projects, idx, assignments, total_cost,
                   max_days, dev_availability, q_ordered, qresult, error>>

FloatDaysNext ==
    \/ FloatDaysResolve
    \/ FloatDaysAssign
    \/ FloatDaysIdentifyRisks

FloatDaysSpec == FloatDaysInit /\ [][FloatDaysNext]_vars

\* ------------------------------------------- inputs nobody checked before
\* UncheckedSpec: the engine on inputs that need not satisfy the ranges of
\* main.py's _validate_input.  run_optimization is called directly
\* (entry = "greedy"), or the /optimize handler is called with the request's
\* data and calls _validate_input first; request_quantum / request_classical
\* is the value of `use_quantum and use_quantum_param` (main.py, line 129).
\* The inputs keep budget and deadline positive, hours_per_day positive and
\* rate non-negative, so that no division the engine makes is by zero.

\* _validate_input(data) on records that have every key and numeric fields
_validate_input(b, d, devs, projs) ==
    /\ ~(b <= 0)
    /\ ~(d <= 0)
    /\ Len(devs) # 0
    /\ \A i \in DOMAIN devs : ~(devs[i].rate <= 0) /\ ~(devs[i].hours_per_day <= 0)
    /\ Len(projs) # 0
    /\ \A i \in DOMAIN projs :
         /\ ~(projs[i].hours <= 0)
         /\ ~(projs[i].priority < 1 \/ projs[i].priority > 5)

\* /optimize, lines 115-146: validate, then call one of the two optimizers.
\* An input that fails is answered with the error 'Invalid input data' and
\* neither optimizer is called.
OptimizeRequest ==
    /\ pc = "request"
    /\ IF ~_validate_input(budget, deadline, developers, projects)
       THEN /\ pc' = "rejected"
            /\ error' = [kind |-> "invalid_input", name |-> NoName]
       ELSE /\ pc' = IF entry = "request_quantum" THEN "q_start" ELSE "run_start"
            /\ UNCHANGED error
    /\ UNCHANGED <<inputs, beside, caller, ordered_projects, idx, assignments,
                   total_cost, max_days, dev_availability, q_ordered, qresult, result>>

UncheckedInputs ==
    /\ budget = 10
    /\ deadline \in 1..MaxDeadline
    /\ \E n \in 0..MaxDevs :
         developers \in {NameDevelopers(f) :
                           f \in [1..n -> [rate : {0, 1},
                                           hours_per_day : {MaxHoursPerDay},
                                           skills : {<<>>}]]}
    /\ \E n \in 0..2 :
         projects \in {NameProjects(f) :
                         f \in [1..n -> [hours : {0, 1}, priority : {0, 3, 6},
                                         dependencies : {<<>>},
                                         required_skills : {<<>>}]]}

UncheckedInit ==
    /\ UncheckedInputs
    /\ \/ entry \in {"greedy", "request_classical"} /\ use_quantum = FALSE
       \/ /\ entry = "request_quantum"
          /\ use_quantum \in BOOLEAN
          /\ Len(developers) * Len(projects) <= MaxSolverVars
    /\ pc = IF entry = "greedy" THEN "run_start" ELSE "request"
    /\ caller = "direct"
    /\ ordered_projects = <<>>
    /\ q_ordered = <<>>
    /\ idx = 1
    /\ assignments = <<>>
    /\ total_cost = 0
    /\ max_days = <<0, 1>>
    /\ dev_availability = NoLedger
    /\ qresult = NoQResult
    /\ result = <<>>
    /\ error = NoError
    /\ run_no = 1
    /\ previous = <<>>
    /\ calls = <<>>

UncheckedNext ==
    \/ OptimizeRequest
    \/ RunResolve
    \/ RunAssign
    \/ RunFinish
    \/ OptimizeResolve
    \/ QSolve
    \/ QProcess

UncheckedSpec == UncheckedInit /\ [][UncheckedNext]_vars

\* ================================================================= claims
\* position of project index i in an execution order (0 when absent)
Position(order, i) ==
    IF \E k \in DOMAIN order : order[k] = i
    THEN CHOOSE k \in DOMAIN order : order[k] = i
    ELSE 0

\* the dependency edges among present projects: <<t, d>> when project d is
\* named in the dependencies of project t
Edges(projs) ==
    {e \in (DOMAIN projs) \X (DOMAIN projs) :
       projs[e[2]].name \in Range(projs[e[1]].dependencies)}

\* the projects reachable from i along at least one and at most k edges
RECURSIVE ReachWithin(_, _, _)
ReachWithin(projs, i, k) ==
    IF k = 0 THEN {}
    ELSE LET direct == {e[2] : e \in {f \in Edges(projs) : f[1] = i}}
         IN direct \cup UNION {ReachWithin(projs, j, k - 1) : j \in direct}

HasCycle(projs) == \E i \in DOMAIN projs : i \in ReachWithin(projs, i, Len(projs))

HasMissingDependency(projs) ==
    \E i \in DOMAIN projs : \E d \in Range(projs[i].dependencies) :
       d # "" /\ ProjectMap(projs, d) = 0

IsPermutationOfInput(projs, order) ==
    /\ Len(order) = Len(projs)
    /\ \A i \in DOMAIN projs : \E k \in DOMAIN order : order[k] = i

TopologicallyValid(projs, order) ==
    \A e \in Edges(projs) :
       /\ Position(order, e[1]) > 0
       /\ Position(order, e[2]) > 0
       /\ Position(order, e[2]) < Position(order, e[1])

\* C1 (as claimed): whenever the resolver returns an execution order, every
\* dependency present in the input comes strictly before its dependent,
\* whatever the priorities.
C1_TopologicalOrder ==
    pc = "run_loop" => TopologicallyValid(projects, ordered_projects)

\* C2: an input whose dependency declarations contain a cycle among present
\* projects (a self-dependency included) never gets an execution order: the
\* invocation only ever ends by raising the circular-dependency error.
C2_CycleAlwaysRaises ==
    HasCycle(projects) =>
      /\ ordered_projects = <<>>
      /\ q_ordered = <<>>
      /\ pc \in {"run_start", "q_start", "raised"}
      /\ pc = "raised" => (error.kind = "cycle" /\ result = <<>>)

\* a cycle of length at least two was reported, with a missing dependency
\* also present in the input
C2_Witness ==
    /\ pc = "raised"
    /\ error.kind = "cycle"
    /\ HasMissingDependency(projects)
    /\ \A i \in DOMAIN projects : projects[i].name \notin Range(projects[i].dependencies)

\* C3 (as claimed): a dependency naming no input project is skipped: the
\* resolution raises nothing and returns exactly the input projects.
C3_MissingDependencySkipped ==
    (HasMissingDependency(projects) /\ ~HasCycle(projects)
       /\ pc \in {"run_loop", "returned", "raised"})
      => /\ error.kind \notin {"cycle", "keyerror"}
         /\ IsPermutationOfInput(projects, ordered_projects)

\* C4: once the ledger exists, every developer's remaining hours are never
\* negative and equal hours_per_day * deadline minus the hours of the
\* assignments committed to that developer so far.
C4_LedgerExact ==
    dev_availability # NoLedger =>
      \A i \in DOMAIN developers :
         /\ dev_availability[developers[i].name] >= 0
         /\ dev_availability[developers[i].name] =
              developers[i].hours_per_day * deadline
                - Workload(assignments, developers[i].name)

\* a developer used up exactly, by two committed assignments
C4_Witness ==
    /\ dev_availability # NoLedger
    /\ \E i \in DOMAIN developers :
         /\ dev_availability[developers[i].name] = 0
         /\ CountFor(assignments, developers[i].name) >= 2

Greedy == run_optimization(budget, deadline, developers, projects)

SamePlan(a, b) ==
    /\ a.assignments = b.assignments
    /\ a.total_cost = b.total_cost
    /\ a.budget_remaining = b.budget_remaining
    /\ a.completion_time = b.completion_time
    /\ a.time_buffer = b.time_buffer
    /\ a.risks = b.risks

\* C5 (as claimed): with the combinatorial strategy requested and the solving
\* capability unavailable, optimize returns the plan run_optimization returns
\* for the same input, and the result's strategy field reports greedy.
C5_UnavailableReturnsGreedyAndSaysSo ==
    (entry = "quantum" /\ pc = "returned"
       /\ (~use_quantum \/ (qresult.success /\ qresult.kind = "stub")))
      => /\ Greedy.kind = "ok"
         /\ SamePlan(result[1], Greedy.result[1])
         /\ result[1].quantum_powered = "false"

\* C6 (as claimed): when the solve step fails (success = False), the
\* assignments optimize returns are those run_optimization produces.
C6_FailedSolveDelegatesToGreedy ==
    (entry = "quantum" /\ pc = "returned" /\ qresult.kind = "failed")
      => /\ Greedy.kind = "ok"
         /\ result[1].assignments = Greedy.result[1].assignments

NoneEligible ==
    /\ pc = "run_loop"
    /\ idx <= Len(ordered_projects)
    /\ \A i \in DOMAIN developers :
         dev_availability[developers[i].name] < projects[ordered_projects[idx]].hours

C7_RaisedNamesFirstUnservable ==
    (pc = "raised" /\ error.kind = "infeasible") =>
      /\ idx \in DOMAIN ordered_projects
      /\ error.name = projects[ordered_projects[idx]].name
      /\ \A i \in DOMAIN developers :
           dev_availability[developers[i].name] < projects[ordered_projects[idx]].hours
      /\ Len(assignments) = idx - 1
      /\ \A k \in 1..(idx - 1) :
           assignments[k].project = projects[ordered_projects[k]].name

C7_UnservableRaises ==
    NoneEligible =>
      \/ /\ pc' = "raised"
         /\ error' = [kind |-> "infeasible",
                      name |-> projects[ordered_projects[idx]].name]
      \/ /\ caller = "try"
         /\ pc' = "run_start"
         /\ caller' = "except"

\* C7: the greedy run raises the infeasibility error exactly at the first
\* project, in execution order, that no developer's remaining hours cover,
\* and the error names that project; every project before it was assigned.
C7_InfeasibleNamesTask ==
    [](C7_RaisedNamesFirstUnservable) /\ [][C7_UnservableRaises]_vars

\* the error was raised after an earlier project had consumed capacity
C7_Witness ==
    /\ pc = "raised"
    /\ error.kind = "infeasible"
    /\ idx >= 2
    /\ Len(developers) = 2

\* C8: an invocation that ends with an error returns no plan, not even the
\* assignments committed before the failing project; a result exists only
\* when the invocation returned without error, and the greedy run's result
\* then covers every project; on a cycle error no assignment was committed
\* and no ledger was created.
C8_AbortReturnsNoPlan ==
    /\ pc = "raised" => (result = <<>> /\ error.kind # "none")
    /\ result # <<>> => (pc = "returned" /\ error = NoError)
    /\ (pc = "returned" /\ qresult.kind \in {"none", "stub"})
         => Len(result[1].assignments) = Len(projects)
    /\ error.kind = "cycle" => (assignments = <<>> /\ dev_availability = NoLedger)

\* an infeasibility error reached the caller after assignments were committed
C8_Witness ==
    /\ pc = "raised"
    /\ error.kind = "infeasible"
    /\ assignments # <<>>
    /\ result = <<>>

AssignedCount(asg, name) == Cardinality({k \in DOMAIN asg : asg[k].project = name})

\* C9 (as claimed): every returned plan holds exactly one assignment for
\* each input project (stated here for the plans that are not read off an
\* external solver's answer x: the greedy run and the failed solve).
C9_OneAssignmentPerTask ==
    (pc = "returned" /\ qresult.kind # "real") =>
      \A i \in DOMAIN projects : AssignedCount(result[1].assignments, projects[i].name) = 1

\* C10 (as claimed): in every returned plan no developer is given more hours
\* than hours_per_day * deadline (stated here for the plans that are not read
\* off an external solver's answer x: the greedy run and the failed solve).
C10_PlanWithinCapacity ==
    (pc = "returned" /\ qresult.kind # "real") =>
      \A i \in DOMAIN developers :
         Workload(result[1].assignments, developers[i].name)
           <= developers[i].hours_per_day * deadline

\* the time each developer needs for all the hours a plan gives them
WorkerTimes(devs, asg) ==
    {<<Workload(asg, devs[i].name), devs[i].hours_per_day>> : i \in DOMAIN devs}

\* the largest of a non-empty set of fractions
MaxFrac(S) == CHOOSE f \in S : \A g \in S : ~FracLess(f, g)

\* C11 (as claimed): in every returned plan, completion_time is the largest,
\* over the developers, of (all hours the plan gives that developer) /
\* hours_per_day, and time_buffer is the deadline minus that time; on the
\* greedy run as on the combinatorial path.
C11_CompletionTimeIsMaxWorkload ==
    pc = "returned" =>
      LET ct == MaxFrac(WorkerTimes(developers, result[1].assignments))
      IN /\ result[1].completion_time = RoundTenths(ct)
         /\ result[1].time_buffer = RoundTenths(<<deadline * ct[2] - ct[1], ct[2]>>)

\* the percentage the scoring contract defines: 100 without required skills,
\* else the share of the required tags the developer has, compared without
\* case and rounded down
ContractSkillMatch(dev, project) ==
    IF project.required_skills = <<>> THEN 100
    ELSE (Cardinality({t \in LowerSet(project.required_skills) :
                         t \in LowerSet(dev.skills)}) * 100)
           \div Cardinality(LowerSet(project.required_skills))

\* C12 (as claimed): the skill match recorded in every assignment of a
\* returned plan is the contract's percentage for that developer and project;
\* a developer without skills gets 0 on a project that requires some.
C12_RecordedSkillMatch ==
    pc = "returned" =>
      \A k \in DOMAIN result[1].assignments :
         LET a == result[1].assignments[k]
         IN a.skill_match =
              ContractSkillMatch(developers[DevIndex(developers, a.developer)],
                                 projects[ProjectMap(projects, a.project)])

\* the findings of one kind in the list the risk evaluator returned
Findings(kind) == SelectSeq(result[1], LAMBDA r : r.kind = kind)

HasFinding(kind, severity) ==
    \E k \in DOMAIN result[1] :
       result[1][k].kind = kind /\ result[1][k].severity = severity

\* C13: with usage = total_cost / budget * 100, the evaluator emits a high
\* budget finding iff usage > 95, a medium one iff 80 < usage <= 95, none iff
\* usage <= 80, and never two budget findings.
C13_BudgetThresholds ==
    pc = "risk_done" =>
      /\ Len(Findings("budget")) <= 1
      /\ HasFinding("budget", "high") <=> (100 * total_cost > 95 * budget)
      /\ HasFinding("budget", "medium")
           <=> (100 * total_cost > 80 * budget /\ 100 * total_cost <= 95 * budget)
      /\ (Findings("budget") = <<>>) <=> (100 * total_cost <= 80 * budget)

\* a plan at exactly 95% of the budget was evaluated and flagged medium
C13_Witness ==
    /\ pc = "risk_done"
    /\ 100 * total_cost = 95 * budget
    /\ Findings("budget") = <<[kind |-> "budget", severity |-> "medium", names |-> <<>>]>>

\* C15: the evaluator emits a high timeline finding iff completion time >
\* deadline; otherwise a medium one iff (deadline - completion time) /
\* deadline * 100 < 10, so also when the plan ends exactly on the deadline;
\* otherwise no timeline finding.
C15_TimelineThresholds ==
    pc = "risk_done" =>
      LET late == max_days[1] > deadline * max_days[2]
          tight == 100 * (deadline * max_days[2] - max_days[1])
                     < 10 * deadline * max_days[2]
      IN /\ Len(Findings("timeline")) <= 1
         /\ HasFinding("timeline", "high") <=> late
         /\ HasFinding("timeline", "medium") <=> (~late /\ tight)
         /\ (Findings("timeline") = <<>>) <=> (~late /\ ~tight)

\* a plan ending exactly on the deadline was evaluated and flagged medium
C15_Witness ==
    /\ pc = "risk_done"
    /\ max_days[1] = deadline * max_days[2]
    /\ HasFinding("timeline", "medium")

LowSkillCount == Cardinality({k \in DOMAIN assignments : assignments[k].skill_match < 70})

\* C16: with n the number of assignments whose skill match is below 70 (70
\* itself not counted), the evaluator emits no skill finding when n = 0, a
\* medium one when n is 1 or 2, a high one when n >= 3.
C16_SkillThresholds ==
    pc = "risk_done" =>
      /\ Len(Findings("skill")) <= 1
      /\ (Findings("skill") = <<>>) <=> (LowSkillCount = 0)
      /\ HasFinding("skill", "medium") <=> (LowSkillCount \in {1, 2})
      /\ HasFinding("skill", "high") <=> (LowSkillCount >= 3)

\* three assignments below 70 next to one at exactly 70 were flagged high
C16_Witness ==
    /\ pc = "risk_done"
    /\ LowSkillCount = 3
    /\ \E k \in DOMAIN assignments : assignments[k].skill_match = 70
    /\ HasFinding("skill", "high")

Overallocated ==
    {d \in {assignments[k].developer : k \in DOMAIN assignments} :
       CountFor(assignments, d) > 2}

\* C17: the evaluator emits exactly one overallocation finding, of medium
\* severity, iff some developer appears in more than two assignments, and
\* that finding names exactly the developers with more than two.
C17_OverallocationFinding ==
    pc = "risk_done" =>
      LET f == Findings("overallocation")
      IN /\ (Overallocated = {}) <=> (f = <<>>)
         /\ Overallocated # {} =>
              /\ Len(f) = 1
              /\ f[1].severity = "medium"
              /\ Range(f[1].names) = Overallocated
              /\ Len(f[1].names) = Cardinality(Overallocated)

\* two developers with three assignments each were named, a third with
\* exactly two was not
C17_Witness ==
    /\ pc = "risk_done"
    /\ Cardinality(Overallocated) = 2
    /\ \E d \in {"d1", "d2", "d3"} : CountFor(assignments, d) = 2
    /\ Len(Findings("overallocation")) = 1
    /\ Range(Findings("overallocation")[1].names) = Overallocated

\* the plan's cost in tenths, from the decimal rate and the hours
CostInTenths == projects[1].hours * developers[1].rate.tenths

\* C14 (as claimed): the budget thresholds are exact at the boundary: a plan
\* whose usage is exactly 95% or exactly 80% of the budget gets no budget
\* finding, a usage strictly above 95% is flagged high, and a usage strictly
\* above 80% and below 95% is flagged medium.  (usage = 10 * CostInTenths /
\* budget, in percent.)
C14_ExactBudgetBoundaries ==
    pc = "float_done" =>
      /\ (10 * CostInTenths = 95 * budget \/ 10 * CostInTenths = 80 * budget)
           => Findings("budget") = <<>>
      /\ 10 * CostInTenths > 95 * budget => HasFinding("budget", "high")
      /\ (10 * CostInTenths > 80 * budget /\ 10 * CostInTenths < 95 * budget)
           => HasFinding("budget", "medium")

\* C18: a second execution of run_optimization on the same arguments ends as
\* the first did: the same assignments in the same order with the same
\* developers, the same totals and risks, or the same error; nothing the
\* first execution left behind changes the outcome.
C18_SecondRunIdentical ==
    (run_no = 2 /\ pc \in {"returned", "raised"}) =>
      /\ result = previous[1].result
      /\ error = previous[1].error

\* a second execution returned a plan of at least two assignments where two
\* developers of equal rate tied for the projects
C18_Witness ==
    /\ run_no = 2
    /\ pc = "returned"
    /\ Len(result[1].assignments) >= 2
    /\ Len(developers) = 2
    /\ developers[1].rate = developers[2].rate
    /\ developers[1].skills = developers[2].skills

\* the ledger as it stood before the k-th assignment of the run was made
LedgerBefore(k, name) ==
    developers[DevIndex(developers, name)].hours_per_day * deadline
      - Workload(SubSeq(assignments, 1, k - 1), name)

\* C19 (as claimed): for a fixed project and a fixed skill match the
\* amplitude never grows with the rate, and consequently every assignment the
\* greedy run makes goes to a developer no more expensive than any other
\* developer who was eligible with the same skill match.
C19_CheaperNeverLoses ==
    /\ \A i \in DOMAIN projects : \A s \in {0, 50, 100} :
         \A r1, r2 \in 1..MaxRate :
            r1 < r2 => ~AmpLess(s, projects[i].hours * r1, s, projects[i].hours * r2,
                                projects[i].priority)
    /\ \A k \in DOMAIN assignments :
         LET project == projects[ProjectMap(projects, assignments[k].project)]
             chosen == developers[DevIndex(developers, assignments[k].developer)]
         IN \A j \in DOMAIN developers :
              (/\ LedgerBefore(k, developers[j].name) >= project.hours
               /\ SkillMatch(developers[j], project) = assignments[k].skill_match)
                => developers[j].rate >= chosen.rate

\* what a call ends with when it runs alone on its arguments
Alone(c) ==
    IF c.entry = "greedy"
    THEN run_optimization(c.budget, c.deadline, c.developers, c.projects)
    ELSE optimize(c.budget, c.deadline, c.developers, c.projects, use_quantum, c.qresult)

\* C20: when the steps of several invocations interleave, every invocation
\* ends as it would alone on its arguments: with the same result, or with the
\* same error and no result; its ledger holds what its own assignments left.
C20_InterleavedAsAlone ==
    \A i \in DOMAIN calls :
       /\ calls[i].pc = "returned" =>
            (Alone(calls[i]).kind = "ok" /\ calls[i].result = Alone(calls[i]).result)
       /\ calls[i].pc = "raised" =>
            /\ calls[i].result = <<>>
            /\ calls[i].error = [kind |-> Alone(calls[i]).kind,
                                 name |-> Alone(calls[i]).name]
       /\ calls[i].dev_availability # NoLedger =>
            \A k \in DOMAIN calls[i].developers :
               calls[i].dev_availability[calls[i].developers[k].name] =
                 calls[i].developers[k].hours_per_day * calls[i].deadline
                   - Workload(calls[i].assignments, calls[i].developers[k].name)

\* two calls on the same developers are in their loops at the same time,
\* each having committed assignments, and their ledgers differ
C20_Witness ==
    /\ entry = "calls"
    /\ \E i, j \in DOMAIN calls :
         /\ i # j
         /\ calls[i].developers = calls[j].developers
         /\ calls[i].pc = "run_loop"
         /\ calls[j].pc = "run_loop"
         /\ calls[i].assignments # <<>>
         /\ calls[j].assignments # <<>>
         /\ calls[i].dev_availability # calls[j].dev_availability

\* some project needs more hours than any developer has in the whole period
HasInfeasibleTask ==
    \E i \in DOMAIN projects : \A k \in DOMAIN developers :
       developers[k].hours_per_day * deadline < projects[i].hours

\* C21 (as claimed): when optimize is called on an input with a dependency
\* cycle or with a project no developer can take, it ends by raising the
\* cycle / infeasibility error to the caller and returns no plan (stated here
\* for the invocations whose plan is not read off an external solver's answer
\* x).
C21_DomainErrorsReachCaller ==
    (entry = "quantum" /\ pc \in {"returned", "raised"} /\ qresult.kind # "real") =>
      /\ HasCycle(projects) =>
           (pc = "raised" /\ error.kind = "cycle" /\ result = <<>>)
      /\ (~HasCycle(projects) /\ ~HasMissingDependency(projects) /\ HasInfeasibleTask) =>
           (pc = "raised" /\ error.kind = "infeasible" /\ result = <<>>)

\* the input breaks one of the range rules
InvalidInput == ~_validate_input(budget, deadline, developers, projects)

\* C22 (as claimed): run_optimization called on an input that breaks a range
\* rule does nothing but raise a validation error: no ledger is created and
\* no assignment is committed; and the /optimize handler rejects such an
\* input before either optimizer is called.
C22_CoreRevalidates ==
    InvalidInput =>
      /\ entry = "greedy" =>
           /\ pc \in {"run_start", "raised"}
           /\ pc = "raised" => error.kind = "validation"
           /\ dev_availability = NoLedger
           /\ assignments = <<>>
      /\ entry \in {"request_classical", "request_quantum"} =>
           pc \in {"request", "rejected"}

\* the half of C22 about the /optimize handler, on its own
RequestRejectedBeforeOptimizer ==
    (InvalidInput /\ entry \in {"request_classical", "request_quantum"}) =>
      /\ pc \in {"request", "rejected"}
      /\ dev_availability = NoLedger /\ assignments = <<>> /\ result = <<>>

\* amplitude of developer i for the project is below that of developer j
Below(i, j, project) ==
    AmpLess(SkillMatch(developers[i], project), Cost(developers[i], project),
            SkillMatch(developers[j], project), Cost(developers[j], project),
            project.priority)

\* the developers whose remaining hours cover the project, from the ledger
Candidates(project) ==
    {i \in DOMAIN developers : dev_availability[developers[i].name] >= project.hours}

IsPrefix(s, t) == Len(s) <= Len(t) /\ SubSeq(t, 1, Len(s)) = s

\* one iteration of the loop of run_optimization is about to run
AtProject == pc = "run_loop" /\ idx <= Len(ordered_projects)

C23_Selection ==
    AtProject =>
      LET project == projects[ordered_projects[idx]]
          cands == Candidates(project)
      IN IF cands = {}
         THEN pc' \in {"raised", "run_start"} /\ ~(Len(assignments') > Len(assignments))
         ELSE /\ Len(assignments') = Len(assignments) + 1
              /\ \E i \in cands :
                   /\ assignments'[Len(assignments')].developer = developers[i].name
                   /\ assignments'[Len(assignments')].project = project.name
                   /\ \A j \in cands : ~Below(i, j, project)
                   /\ \A j \in cands : j < i => Below(j, i, project)

C23_NeverRevised ==
    (pc \in {"run_loop", "returned", "raised"} /\ pc' # "run_start") =>
      /\ IsPrefix(assignments, assignments')
      /\ pc' = "returned" /\ qresult.kind = "none" => result'[1].assignments = assignments

\* C23: for each project, in execution order, the candidates are exactly the
\* developers whose remaining hours are >= the project's hours (equal hours
\* included); the developer committed is a candidate of maximum amplitude,
\* the first in the input list among those of equal maximum amplitude; and
\* an assignment once committed is never changed or removed by a later step.
C23_GreedySelectionRule ==
    [][C23_Selection /\ C23_NeverRevised]_vars

\* a project went to the first of two developers of equal amplitude, and it
\* took exactly the hours that developer had left
C23_Witness ==
    /\ pc \in {"run_loop", "returned"}
    /\ Len(developers) = 2
    /\ \E k \in DOMAIN assignments :
         LET project == projects[ProjectMap(projects, assignments[k].project)]
         IN /\ assignments[k].developer = developers[1].name
            /\ LedgerBefore(k, developers[1].name) = project.hours
            /\ LedgerBefore(k, developers[2].name) >= project.hours
            /\ ~Below(1, 2, project)
            /\ ~Below(2, 1, project)

\* neither project depends on the other, directly or through others
Independent(projs, i, j) ==
    /\ j \notin ReachWithin(projs, i, Len(projs))
    /\ i \notin ReachWithin(projs, j, Len(projs))

\* C24 (as claimed): of two projects with no ordering constraint between
\* them, the one of higher priority comes first in the execution order, and
\* two of equal priority come in the order they have in the input list.
C24_IndependentByPriorityThenInput ==
    pc = "run_loop" =>
      \A i, j \in DOMAIN projects :
         (i # j /\ Independent(projects, i, j)) =>
           /\ projects[i].priority > projects[j].priority
                => Position(ordered_projects, i) < Position(ordered_projects, j)
           /\ (projects[i].priority = projects[j].priority /\ i < j)
                => Position(ordered_projects, i) < Position(ordered_projects, j)

\* the half of C24 about differing priorities, on its own
HigherPriorityFirst ==
    pc = "run_loop" =>
      \A i, j \in DOMAIN projects :
         projects[i].priority > projects[j].priority
           => Position(ordered_projects, i) < Position(ordered_projects, j)

\* C25 (as claimed): every returned result carries the strategy indicator,
\* and the indicator reports the combinatorial strategy only when the
\* assignments were read off a successful solve, never when a greedy
\* procedure produced them.
C25_StrategySurfaced ==
    pc = "returned" =>
      /\ result[1].quantum_powered \in {"true", "false"}
      /\ result[1].quantum_powered = "true"
           => (qresult.success /\ qresult.kind = "real")

\* the second half of C25 alone fails as well: a plan made by the greedy
\* branch of _process_results is never reported as combinatorial
FailedSolveNotReportedCombinatorial ==
    (pc = "returned" /\ qresult.kind = "failed") => result[1].quantum_powered # "true"

\* position of a kind in the fixed order of the findings
KindRank(kind) ==
    CASE kind = "budget" -> 1
      [] kind = "timeline" -> 2
      [] kind = "skill" -> 3
      [] kind = "overallocation" -> 4

\* the findings of one kind the evaluator returns on the given figures
FindingsOn(kind, asg, cost, ct) ==
    SelectSeq(_identify_risks(asg, budget, deadline, cost, ct), LAMBDA r : r.kind = kind)

MixedTimes == {<<h, 10>> : h \in MixedHours}

\* plans that differ in their skill matches and in their developers
OtherPlans ==
    {MixedAssignments(3, 1, low, same) : low \in {0, 1, 3}, same \in BOOLEAN}

C26_OrderAndIndependence ==
    pc = "risk_done" =>
      /\ \A k \in 1..(Len(result[1]) - 1) :
           KindRank(result[1][k].kind) < KindRank(result[1][k + 1].kind)
      /\ \A asg \in OtherPlans : \A ct \in MixedTimes :
           FindingsOn("budget", asg, total_cost, ct) = Findings("budget")
      /\ \A asg \in OtherPlans : \A c \in MixedCosts :
           FindingsOn("timeline", asg, c, max_days) = Findings("timeline")
      /\ \A c \in MixedCosts : \A ct \in MixedTimes :
           /\ FindingsOn("skill", assignments, c, ct) = Findings("skill")
           /\ FindingsOn("overallocation", assignments, c, ct)
                = Findings("overallocation")

C26_PlanUntouched ==
    pc = "risk_start" =>
      /\ assignments' = assignments
      /\ <<budget', deadline', total_cost', max_days'>>
           = <<budget, deadline, total_cost, max_days>>

\* C26: the findings come in the order budget, timeline, skill match,
\* overallocation, at most one of each kind; whether a kind's finding is
\* emitted, and with what severity, is the same whatever the figures behind
\* the other kinds are; and the evaluator leaves the plan as it was.
C26_FixedOrderIndependentFindings ==
    [](C26_OrderAndIndependence) /\ [][C26_PlanUntouched]_vars

\* all four findings were returned together, the budget's and the
\* timeline's of high severity
C26_Witness ==
    /\ pc = "risk_done"
    /\ Len(result[1]) = 4
    /\ HasFinding("budget", "high")
    /\ HasFinding("timeline", "high")
    /\ HasFinding("skill", "high")
    /\ HasFinding("overallocation", "medium")

C27_RecordsUntouched ==
    /\ developers' = developers
    /\ projects' = projects
    /\ budget' = budget
    /\ deadline' = deadline

C27_ConsumptionInLedger ==
    (pc \in {"returned", "raised"} /\ dev_availability # NoLedger) =>
      \A i \in DOMAIN developers :
         /\ developers[i].hours_per_day * deadline - dev_availability[developers[i].name]
              = Workload(assignments, developers[i].name)

\* C27: no step of a run changes a developer record, a project record or the
\* order of the caller's two lists, whether the run returns or raises; the
\* hours consumed are found in the run's ledger only.
C27_InputsUnchanged ==
    [][C27_RecordsUntouched]_vars /\ [](C27_ConsumptionInLedger)

\* a run returned after taking the projects in another order than the
\* caller's list has them and after consuming hours of a developer
C27_Witness ==
    /\ pc = "returned"
    /\ qresult.kind = "none"
    /\ ordered_projects # [k \in DOMAIN projects |-> k]
    /\ Len(ordered_projects) = Len(projects)
    /\ \E i \in DOMAIN developers :
         dev_availability[developers[i].name] < developers[i].hours_per_day * deadline
    /\ projects[1].name = ProjectNames[1]

\* budgets another run on the same developers, projects and deadline may have
OtherBudgets == {1, 5, 10, 40}

\* the findings of a risk list that are not about the budget
NotBudget(risks) == SelectSeq(risks, LAMBDA r : r.kind # "budget")

\* C28: a greedy run with another budget, everything else equal, ends the
\* same way: it raises the same error, or it returns the same assignments
\* (developer, hours, cost and skill match of every project, in the same
\* order) with the same total cost and times; only budget_remaining and the
\* budget finding may differ.
C28_BudgetNeverSteersAssignment ==
    (entry = "greedy" /\ pc \in {"returned", "raised"}) =>
      \A b \in OtherBudgets :
         LET other == run_optimization(b, deadline, developers, projects)
         IN /\ pc = "raised" =>
                 (other.kind = error.kind /\ other.name = error.name)
            /\ pc = "returned" =>
                 /\ other.kind = "ok"
                 /\ other.result[1].assignments = result[1].assignments
                 /\ other.result[1].total_cost = result[1].total_cost
                 /\ other.result[1].completion_time = result[1].completion_time
                 /\ other.result[1].time_buffer = result[1].time_buffer
                 /\ NotBudget(other.result[1].risks) = NotBudget(result[1].risks)

\* a returned plan of two assignments that costs more than one of the other
\* budgets, whose run gets a different budget finding for the same
\* assignments
C28_Witness ==
    /\ entry = "greedy"
    /\ pc = "returned"
    /\ Len(result[1].assignments) >= 2
    /\ \E b \in OtherBudgets :
         LET other == run_optimization(b, deadline, developers, projects)
         IN /\ b < result[1].total_cost
            /\ other.kind = "ok"
            /\ other.result[1].assignments = result[1].assignments
            /\ other.result[1].risks # result[1].risks
            /\ other.result[1].budget_remaining < 0

\* C29 (as claimed): in every plan the greedy run returns, the completion
\* time it computed is at most the deadline, and no high timeline finding
\* (completion exceeds deadline) is among the risks.
C29_GreedyNeverPastDeadline ==
    pc = "days_done" =>
      /\ ~FloatGreaterInt(max_days, deadline)
      /\ ~HasFinding("timeline", "high")

\* the same on whole numbers, where every quotient is exact: completion time
\* and deadline of the plans of the main specification
WholeNumbersNeverPastDeadline ==
    (pc = "returned" /\ qresult.kind = "none") =>
      /\ ~FracLess(<<deadline, 1>>, max_days)
      /\ result[1].time_buffer >= 0
      /\ \A k \in DOMAIN result[1].risks :
           ~(result[1].risks[k].kind = "timeline" /\ result[1].risks[k].severity = "high")

\* the run was made by run_optimization (called directly or by optimize)
GreedyRun == qresult.kind = "none"

StepwiseRunMatchesFunction ==
    /\ (pc = "returned" /\ qresult.kind \in {"none", "stub"})
         => (Greedy.kind = "ok" /\ result = Greedy.result)
    /\ (pc = "raised") => (Greedy.kind = error.kind /\ Greedy.name = error.name)

\* the step-wise optimize and optimize as a function agree
StepwiseOptimizeMatchesFunction ==
    LET alone == optimize(budget, deadline, developers, projects, use_quantum, qresult)
    IN entry = "quantum" =>
         /\ pc = "returned" => (alone.kind = "ok" /\ result = alone.result)
         /\ pc = "raised" => (alone.kind = error.kind /\ alone.name = error.name)
====
